---- MODULE Spec2Model ----
(***************************************************************************)
(* Dump transformation and restore pipeline of dbforge.                    *)
(*                                                                         *)
(* Spec      the slim:start IPC handler (electron/ipc-handlers.js) driving *)
(*           the engine through lib/mysql.js, one step per awaited call.   *)
(* SlimSpec  exportSlimSql (lib/mysql.js): two export passes into          *)
(*           temporary files and their concatenation, one step per stream  *)
(*           or process event.                                             *)
(*                                                                         *)
(* Names of databases, files and tables are sequences of one-character     *)
(* strings, so that basename(), the `_temp` / `_slim.sql` suffixes and the *)
(* LIKE pattern of databaseExists are computed as the code computes them.  *)
(***************************************************************************)
EXTENDS Integers, Sequences, FiniteSets, TLC

VARIABLES
    \* ---- slim:start (electron/ipc-handlers.js) ----
    files,          \* request: ordered list of input paths
    restoreConfig,  \* request: null or {enabled, databaseNames}
    pc,             \* position of the handler (the await it is suspended at)
    i,              \* loop index of the item loop (0-based, as in the code)
    configContent,  \* environment: the characters of config/exclude-tables.txt
    configRead,     \* what reading config/exclude-tables.txt gave ("none" before)
    excludeTables,  \* result of loadExcludeTables
    results,        \* the results array
    error,          \* the error bound by the item's catch block
    targetDbName,   \* restore target of the current item
    restoreInfo,    \* restoreInfo of the current item
    stream,         \* importSql: state of the file read stream piped to mysql
    events,         \* progress events sent on progressChannel, in order
    ret,            \* what the handler returned or threw
    calls,          \* external calls issued for the current item, in order
    thrown,         \* errors raised while processing the current item, in order
    engine,         \* database name -> content held by the MySQL server
    faults,         \* environment: external calls that have failed so far
    disk,           \* slim directory: file name -> content
    connectionConfig, \* lib/mysql.js: the module's connectionConfig
    \* ---- progress of the byte-driven phases (electron/ipc-handlers.js) ----
    fileSize,       \* size fs.stat gave for the file being imported
    bytesProcessed, \* importSql: bytes the read stream has delivered
    now,            \* the clock read by Date.now()
    lastProgressUpdate, \* closure variable of the running import's callback
    lastPercentage, \* closure variable of the running import's callback
    updates,        \* current item: phase openings and byte-counter updates, in order
    rich,           \* environment: the phase whose stream delivers several chunks
    reported,       \* exportSlimSql: what it passed to onProgress in its last call, in order
    \* ---- settings (electron/settings.js, src/components/Settings.jsx) ----
    store,          \* electron-store: the value under the key 'mysql'
    mysqlConfig,    \* Settings.jsx: the connection form (state mysqlConfig)
    screen,         \* Settings.jsx: position of the running click handler
    tested,         \* what the last mysql:testConnection connected with
    snapshotType,   \* snapshot request: 'full' or 'slim'
    \* ---- the shared connection (lib/mysql.js) ----
    connection,     \* the module's connection: 0 for null, else the id of a connection
    conns,          \* connections opened so far, by id: "open" or "ended"
    handlers,       \* invocation -> the mysql:* handler running it and its position
    queries,        \* connection.query(...) calls, in order: who, on what, was it live
    \* ---- database:bulkDelete (electron/ipc-handlers.js) ----
    dbNames,        \* request: the names to drop, in order
    deleted,        \* the handler's deleted array
    errors,         \* the handler's errors array
    \* ---- the Slim screen (src/components/Slim.jsx, src/contexts/OperationContext.jsx) ----
    activeOperation, \* OperationContext: the state activeOperation
    processing,     \* Slim.jsx: the state processing
    delivered,      \* progress events of the batch the renderer's listener has handled
    slimScreen,     \* position of handleProcess
    \* ---- exportSlimSql (lib/mysql.js) ----
    spc,            \* position inside exportSlimSql
    tables,         \* tables of the dumped database
    excluded,       \* excludeDataTables argument
    args1,          \* mysqldump arguments of the structure pass
    args2,          \* mysqldump arguments of the data pass
    out1,           \* not yet emitted stdout of the structure pass
    out2,           \* not yet emitted stdout of the data pass
    sent1,          \* bytes the structure pass has written to its stdout
    sent2,          \* bytes the data pass has written to its stdout
    wbuf1,          \* bytes accepted by the structure file's write stream, not yet on disk
    wbuf2,          \* bytes accepted by the data file's write stream, not yet on disk
    structureFile,  \* content of the temporary structure file (Absent if none)
    dataFile,       \* content of the temporary data file (Absent if none)
    rpos,           \* read position of the read stream being piped
    outFile,        \* content of the output path (Absent if none)
    prior,          \* content of the output path when the call started
    serr            \* the error exportSlimSql rejected with

orchVars == <<files, restoreConfig, pc, i, configContent, configRead, excludeTables, results, error,
              targetDbName, restoreInfo, stream, events, ret, calls, thrown,
              engine, faults, disk, connectionConfig>>
slimVars == <<spc, tables, excluded, args1, args2, out1, out2, sent1, sent2,
              wbuf1, wbuf2, structureFile, dataFile, rpos, outFile, prior, serr>>
progVars == <<fileSize, bytesProcessed, now, lastProgressUpdate, lastPercentage, updates,
              rich, reported>>
settingsVars == <<store, mysqlConfig, screen, tested, snapshotType>>
connVars == <<connection, conns, handlers, queries>>
bulkVars == <<dbNames, deleted, errors>>
lockVars == <<activeOperation, processing, delivered, slimScreen>>
sideVars == <<connVars, bulkVars, lockVars>>
frontVars == <<settingsVars, sideVars>>
vars == <<orchVars, slimVars, progVars, frontVars>>

----------------------------------------------------------------------------
(* Bounds                                                                  *)

MaxFiles == 2

\* External calls (engine, file system, child process) that fail during one
\* batch although the environment could have served them.
MaxFaults == 2

----------------------------------------------------------------------------
(* Names                                                                   *)

Null == <<"null">>
\* content of a path at which there is no file
Absent == <<[kind |-> "absent", table |-> <<>>]>>

DotSql == <<".", "s", "q", "l">>
TempSuffix == <<"_", "t", "e", "m", "p">>
SlimSuffix == <<"_", "s", "l", "i", "m", ".", "s", "q", "l">>

EndsWith(s, suffix) ==
    /\ Len(s) >= Len(suffix)
    /\ SubSeq(s, Len(s) - Len(suffix) + 1, Len(s)) = suffix

\* path.basename(p, '.sql'): the last component, without the extension when
\* the component ends with it and is longer than it.
Basename(p, ext) ==
    IF EndsWith(p.name, ext) /\ Len(p.name) > Len(ext)
    THEN SubSeq(p.name, 1, Len(p.name) - Len(ext))
    ELSE p.name

BaseName(p) == Basename(p, DotSql)
\* A workspace named like the database the dump came from.
TempDbNameIsBase(p) == BaseName(p)
TempDbName(p) == BaseName(p) \o TempSuffix
SlimPath(p) == [dir |-> "slim", name |-> BaseName(p) \o SlimSuffix]

----------------------------------------------------------------------------
(* Request and environment universes                                       *)

FileA == [dir |-> "full", name |-> <<"a">> \o DotSql]
FileB == [dir |-> "full", name |-> <<"b">> \o DotSql]
Paths == {FileA, FileB}
NoPath == [dir |-> "", name |-> <<>>]

\* Target names a user can type for a file; <<>> is a missing or empty entry.
TargetNames == {<<>>, <<"a">>, <<"a">> \o TempSuffix}

\* databaseNames of a request: the default name of a.sql and none for b.sql,
\* or names typed by the user that meet a workspace name and each other.
DefaultNames == [p \in Paths |-> IF p = FileA THEN <<"a">> ELSE <<>>]
TypedNames == [p \in Paths |-> IF p = FileA THEN <<"a">> \o TempSuffix ELSE <<"a">>]

NoRestoreConfig ==
    [isNull |-> TRUE, enabled |-> FALSE, databaseNames |-> [p \in Paths |-> <<>>]]
RestoreConfigs ==
    { NoRestoreConfig,
      [isNull |-> FALSE, enabled |-> TRUE, databaseNames |-> DefaultNames],
      [isNull |-> FALSE, enabled |-> TRUE, databaseNames |-> TypedNames] }

\* Databases the server can hold: the workspaces, the targets, and one name
\* that differs from a workspace name in the position of its underscore.
OtherDb == <<"a", "1", "t", "e", "m", "p">>
DbNames ==
    {TempDbName(p) : p \in Paths} \cup (TargetNames \ {<<>>}) \cup {OtherDb}

NoDb == [kind |-> "absent", src |-> NoPath]
EmptyDb == [kind |-> "empty", src |-> NoPath]
UserDb == [kind |-> "user", src |-> NoPath]
ImportedDb(file) == [kind |-> "imported", src |-> file]
PartialDb(file) == [kind |-> "partial", src |-> file]

NoFile == [kind |-> "absent", src |-> NoPath]
SlimFile(p) == [kind |-> "slim", src |-> p]
PartialFile(p) == [kind |-> "partial", src |-> p]
SlimPaths == {SlimPath(p) : p \in Paths}

Front(s) == SubSeq(s, 1, Len(s) - 1)
Last(s) == s[Len(s)]

RECURSIVE SeqsUpTo(_, _)
SeqsUpTo(S, n) ==
    IF n = 0 THEN {<<>>}
    ELSE LET shorter == SeqsUpTo(S, n - 1)
         IN  shorter \cup {Append(q, x) : q \in {r \in shorter : Len(r) = n - 1}, x \in S}

----------------------------------------------------------------------------
(* lib/mysql.js: the engine as seen through the mysql client               *)

\* SQL LIKE: `_` matches any one character, `%` any run of characters.
RECURSIVE LikeMatch(_, _)
LikeMatch(pattern, s) ==
    IF pattern = <<>> THEN s = <<>>
    ELSE IF Head(pattern) = "%"
         THEN LikeMatch(Tail(pattern), s) \/ (s # <<>> /\ LikeMatch(pattern, Tail(s)))
         ELSE /\ s # <<>>
              /\ (Head(pattern) = "_" \/ Head(pattern) = Head(s))
              /\ LikeMatch(Tail(pattern), Tail(s))

Existing(eng) == {d \in DOMAIN eng : eng[d] # NoDb}

\* The server before the batch: no database of interest, a workspace left by
\* an interrupted run, or a database of the user whose name fits the pattern.
InitialEngines ==
    {eng \in [DbNames -> {NoDb, UserDb}] :
        Existing(eng) \in {{}, {TempDbName(FileA)}, {OtherDb}}}

\* Rows printed by  SHOW DATABASES LIKE '<dbName>'.
ShowDatabasesLike(dbName, eng) == {d \in Existing(eng) : LikeMatch(dbName, d)}

\* databaseExists: stdout has a header line and one line per row, or is
\* empty; the result is  stdout.trim().split('\n').length > 1.
DatabaseExists(dbName, eng) ==
    LET rows == Cardinality(ShowDatabasesLike(dbName, eng))
        lines == IF rows = 0 THEN 1 ELSE rows + 1
    IN  lines > 1

\* The server accepts DROP DATABASE only for a database it holds, and
\* CREATE DATABASE only for a name it does not hold.
CanDrop(dbName, eng) == dbName \in Existing(eng)
CanCreate(dbName, eng) == dbName \in DOMAIN eng /\ dbName \notin Existing(eng)

DropDatabase(dbName, eng) == [eng EXCEPT ![dbName] = NoDb]
CreateDatabase(dbName, eng) == [eng EXCEPT ![dbName] = EmptyDb]

\* mysql <dbName> fed with a dump: every statement applied, or only some.
ImportInto(dbName, file, eng) == [eng EXCEPT ![dbName] = ImportedDb(file)]
ImportPartly(dbName, file, eng) ==
    IF dbName \in Existing(eng) THEN [eng EXCEPT ![dbName] = PartialDb(file)] ELSE eng

ErrCheck == "MySQL check database failed"
ErrDrop == "MySQL drop database failed"
ErrCreate == "MySQL create database failed"
ErrImport == "MySQL import failed"
ErrStructure == "MySQL structure export failed"
ErrData == "MySQL data export failed"
ErrConcat == "stream error"
ErrStat == "ENOENT"
ErrConnect == "Cannot connect to MySQL"
ErrMkdir == "EACCES: mkdir"

----------------------------------------------------------------------------
(* lib/files.js: loadExcludeTables                                         *)

TableU == <<"u">>
TableS == <<"s">>
TableK == <<"k">>

\* content.split('\n')
RECURSIVE Split(_)
Split(content) ==
    IF \A k \in 1..Len(content) : content[k] # "\n" THEN <<content>>
    ELSE LET k == CHOOSE j \in 1..Len(content) :
                      content[j] = "\n" /\ \A h \in 1..(j - 1) : content[h] # "\n"
         IN  <<SubSeq(content, 1, k - 1)>> \o Split(SubSeq(content, k + 1, Len(content)))

IsSpace(c) == c \in {" ", "\t", "\r"}

\* line.trim()
RECURSIVE Trim(_)
Trim(line) ==
    IF line = <<>> THEN line
    ELSE IF IsSpace(Head(line)) THEN Trim(Tail(line))
    ELSE IF IsSpace(line[Len(line)]) THEN Trim(SubSeq(line, 1, Len(line) - 1))
    ELSE line

\* A filter that keeps the comment lines.
KeepLineWithComments(line) == line # <<>>

KeepLine(line) == line # <<>> /\ Head(line) # "#"

\* lines.filter(line => line && !line.startsWith('#'))
RECURSIVE FilterLines(_)
FilterLines(lines) ==
    IF lines = <<>> THEN <<>>
    ELSE (IF KeepLine(Head(lines)) THEN <<Head(lines)>> ELSE <<>>) \o FilterLines(Tail(lines))

MapTrim(lines) == [k \in 1..Len(lines) |-> Trim(lines[k])]

\* What fs.readFile(configPath) can give: the content, or an error code.
ConfigContents ==
    { <<"#", "x", "\n", " ", "s", " ", "\n", "\n", "k">> }
ReadResults ==
    [code : {"OK"}, content : {configContent}] \cup
    [code : {"ENOENT", "EACCES"}, content : {<<>>}]

\* A loader that treats every read error as a missing file.
LoadExcludeTablesSwallowAll(rd) ==
    IF rd.code = "OK"
    THEN [threw |-> FALSE, message |-> "", value |-> FilterLines(MapTrim(Split(rd.content)))]
    ELSE [threw |-> FALSE, message |-> "", value |-> <<>>]

\* loadExcludeTables: the trimmed lines that are neither empty nor comments;
\* a missing file gives the empty list, any other read error is rethrown.
LoadExcludeTables(rd) ==
    IF rd.code = "OK"
    THEN [threw |-> FALSE, message |-> "", value |-> FilterLines(MapTrim(Split(rd.content)))]
    ELSE IF rd.code = "ENOENT"
         THEN [threw |-> FALSE, message |-> "", value |-> <<>>]
         ELSE [threw |-> TRUE, message |-> rd.code, value |-> <<>>]

----------------------------------------------------------------------------
(* electron/ipc-handlers.js: progress callbacks of slim:start              *)

\* Most chunks a stream delivers one by one before the rest arrives at once.
MaxChunks == 2

\* 1024 * 1024
MB == 1048576
\* now - last > 200
Threshold == 200
\* Date.now() when the handler is called, in milliseconds: as the clock of a
\* running system, more than Threshold after the time 0.
Epoch == 1000

Min(a, b) == IF a < b THEN a ELSE b

\* Math.round((bytesProcessed / fileSize) * 100), or 0 for an empty file
ImportPercentage(bytes, size) ==
    IF size > 0 THEN (200 * bytes + size) \div (2 * size) ELSE 0

\* An export percentage without its cap.
ExportPercentageUncapped(bytes) == bytes \div MB

\* Math.min(95, Math.floor(bytesProcessed / (1024 * 1024)))
ExportPercentage(bytes) == Min(95, bytes \div MB)

\* import and restore callbacks:
\*   percentage !== last && (percentage - last >= 1 || now - lastUpdate > 200)
ImportEmits(percentage, t, lastPct, lastUpdate) ==
    percentage # lastPct /\ (percentage - lastPct >= 1 \/ t - lastUpdate > Threshold)

\* export callback:  percentage !== last || now - lastUpdate > 200
ExportEmits(percentage, t, lastPct, lastUpdate) ==
    percentage # lastPct \/ t - lastUpdate > Threshold

\* Entries of the log of the current item's byte-driven phases.
Opening(step, t) ==
    [kind |-> "open", step |-> step, percentage |-> 0, at |-> t, emitted |-> TRUE]
Update(step, percentage, t, emitted) ==
    [kind |-> "update", step |-> step, percentage |-> percentage, at |-> t,
     emitted |-> emitted]

\* What the environment can do in a phase: sizes of the file, lengths of the
\* chunks a stream delivers, and the time that passes between two callbacks.
\* With rich = "none" the files are empty and no chunk is ever delivered; with
\* rich = "plain" every file holds one byte.
FileSizes(phase) ==
    IF rich = phase THEN {0, 3, 400}
    ELSE IF rich = "none" THEN {0}
    ELSE {1}
Elapses(phase) == IF rich = phase THEN {0, Threshold, Threshold + 1} ELSE {0}
\* One 'data' event of mysqldump.stdout: the chunk's length and the time
\* that passed since the event before it.
Chunk(len, dt) == [len |-> len, dt |-> dt]
ExportChunks ==
    IF rich = "export"
    THEN {Chunk(1, 0), Chunk(1, Threshold + 1), Chunk(2 * MB, 0), Chunk(64 * MB, 0)}
    ELSE {Chunk(1, 0)}

----------------------------------------------------------------------------
(* electron/ipc-handlers.js: slim:start                                    *)

cur == files[i + 1]
tempDbName == TempDbName(cur)
slimPath == SlimPath(cur)

WantsRestore(rc) == ~rc.isNull /\ rc.enabled

\* An event numbered from 1, as a position in the batch is displayed.
EvNumberedFromOne(step, db, progress) ==
    [current |-> i + 1, total |-> Len(files), currentFile |-> BaseName(cur),
     step |-> step, db |-> db, stepProgress |-> progress]

Ev(step, db, progress) ==
    [current |-> i, total |-> Len(files), currentFile |-> BaseName(cur),
     step |-> step, db |-> db, stepProgress |-> progress]
\* A final event that carries the index of the last item.
FinalEventOfLastItem ==
    [current |-> Len(files) - 1, total |-> Len(files), currentFile |-> Null,
     step |-> "Complete", db |-> <<>>, stepProgress |-> -1]

FinalEvent ==
    [current |-> Len(files), total |-> Len(files), currentFile |-> Null,
     step |-> "Complete", db |-> <<>>, stepProgress |-> -1]

Call(op, db, file, site) == [op |-> op, db |-> db, file |-> file, site |-> site]
Raised(message, site) == [message |-> message, site |-> site]

NoReturn == [kind |-> "none", success |-> FALSE, results |-> <<>>, error |-> <<>>]

\* electron/settings.js: what store.get('mysql') can hold: the defaults, a
\* store that lacks host and port, and one whose port is not a number.
DefaultSettings ==
    [host |-> "localhost", port |-> "3306", user |-> "root", password |-> "", socket |-> ""]
StoredSettings ==
    { DefaultSettings,
      [DefaultSettings EXCEPT !.host = "", !.port = ""],
      [DefaultSettings EXCEPT !.port = "33o6"] }

\* A store of whose content nothing is known before it is read; a run that
\* reads its settings once leaves the store like this.
Unread ==
    [host |-> "?", port |-> "?", user |-> "?", password |-> "?", socket |-> "?"]

\* getMySQLConfig(): store.get('mysql')
StoreGet == IF store = Unread THEN StoredSettings ELSE {store}

\* value || fallback
OrElse(value, fallback) == IF value = "" THEN fallback ELSE value

\* let connectionConfig = null
NotConfigured ==
    [host |-> "null", user |-> "null", password |-> "null", port |-> "null", socketPath |-> "null"]

\* setMySQLConfig: every missing field gets its default, nothing is validated
SetMySQLConfig(config) ==
    [host |-> OrElse(config.host, "localhost"),
     user |-> OrElse(config.user, "root"),
     password |-> OrElse(config.password, ""),
     port |-> OrElse(config.port, "3306"),
     socketPath |-> OrElse(config.socket, "null")]

\* The server listens on localhost:3306 and knows root without password.
Connectable(config) ==
    /\ config.host = "localhost"
    /\ config.port = "3306"
    /\ config.user = "root"
    /\ config.password = ""
    /\ config.socketPath = "null"

\* No settings screen is open, no connection has been tested and no snapshot
\* is requested.
NotTested == [done |-> FALSE, form |-> Unread, with |-> NotConfigured, success |-> FALSE]
\* No mysql:* handler has been invoked and no connection has been opened.
ConnIdle ==
    /\ connection = 0
    /\ conns = <<>>
    /\ handlers = <<>>
    /\ queries = <<>>
\* No database:bulkDelete has been invoked.
BulkIdle ==
    /\ dbNames = <<>>
    /\ deleted = <<>>
    /\ errors = <<>>
\* useState(null): no operation holds the lock.
NoOperation == [operation |-> "null", current |-> 0, total |-> 0]
\* The Slim screen as mounted: nothing is being processed.
LockIdle ==
    /\ activeOperation = NoOperation
    /\ processing = FALSE
    /\ delivered = 0
    /\ slimScreen = "idle"
SideIdle == ConnIdle /\ BulkIdle /\ LockIdle
FrontIdle ==
    /\ store = Unread
    /\ mysqlConfig = Unread
    /\ screen = "closed"
    /\ tested = NotTested
    /\ snapshotType = "none"
    /\ SideIdle

\* Outcome of an external call: it succeeds only if the environment is able
\* to serve it; a failure of a call that could have been served is a fault.
Outcome(ok, able) ==
    /\ ok => able
    /\ (~ok /\ able) => faults < MaxFaults
    /\ faults' = IF ~ok /\ able THEN faults + 1 ELSE faults

\* Outcome of a call that runs mysql or mysqldump with getMysqlCliArgs(), or
\* opens a connection: it cannot be served with an unusable configuration.
EngineOutcome(ok, able) == Outcome(ok, able /\ Connectable(connectionConfig))

\* A return whose success flag is the conjunction of the items' flags.
BatchReturnIfAllSucceeded(res) ==
    [kind |-> "return", success |-> \A k \in 1..Len(res) : res[k].success,
     results |-> res, error |-> <<>>]

\* return { success: true, results }
BatchReturn(res) ==
    [kind |-> "return", success |-> TRUE, results |-> res, error |-> <<>>]

\* The handler's outer catch: throw new Error(`Slim dump failed: ${message}`)
OuterCatch(message) ==
    /\ pc' = "rejected"
    /\ ret' = [kind |-> "throw", success |-> FALSE, results |-> <<>>,
               error |-> <<"Slim dump failed: ", message>>]

\* The item's catch block takes over: the error is bound, cleanup starts.
CatchItemError(message) ==
    /\ error' = message
    /\ thrown' = Append(thrown, Raised(message, "try"))
    /\ pc' = "cleanup_exists"
    /\ UNCHANGED ret

\* A cleanup whose error is not swallowed but becomes the item's error.
CleanupErrorReplaces(message) ==
    /\ thrown' = Append(thrown, Raised(message, "catch"))
    /\ pc' = "push_fail"
    /\ error' = message
    /\ UNCHANGED ret

\* The inner  try { ... } catch {}  around the cleanup.
SwallowCleanupError(message) ==
    /\ thrown' = Append(thrown, Raised(message, "catch"))
    /\ pc' = "push_fail"
    /\ UNCHANGED <<error, ret>>

SuccessResult(file, restored) ==
    [success |-> TRUE, fileName |-> BaseName(file), error |-> "",
     slimPath |-> SlimPath(file), restored |-> restored]
\* The value of a JavaScript number expression: a finite number, or one of the
\* values a division by zero produces.
Num(v) == [kind |-> "number", value |-> v]
NaN == [kind |-> "NaN", value |-> 0]
NegInfinity == [kind |-> "-Infinity", value |-> 0]
\* Math.round(x) of the rational x = num / den, den > 0: floor(x + 1/2).
MathRound(num, den) == (2 * num + den) \div (2 * den)
\* Math.round((1 - slimStats.size / fullStats.size) * 100): with a size of 0
\* for the full file the quotient is Infinity (NaN for 0 / 0), and so is the
\* rounded value.
Savings(slimBytes, fullBytes) ==
    IF fullBytes = 0
    THEN IF slimBytes = 0 THEN NaN ELSE NegInfinity
    ELSE Num(MathRound(100 * (fullBytes - slimBytes), fullBytes))
\* The sizes fs.stat reports for the input file and for the slim file.
StatSizes ==
    IF rich = "none" THEN {[full |-> 0, slim |-> 1]}
    ELSE IF rich = "plain" THEN {[full |-> 1, slim |-> 1]}
    ELSE {[full |-> f, slim |-> s] : f \in {0, 3, 400}, s \in {1, 3, 500}}
\* The record slim:start pushes for an item that succeeded.
SizedResult(file, restored, sizes) ==
    [success |-> TRUE, fileName |-> BaseName(file), error |-> "",
     slimPath |-> SlimPath(file), restored |-> restored,
     fullBytes |-> sizes.full, slimBytes |-> sizes.slim,
     savings |-> Savings(sizes.slim, sizes.full)]
FailedResult(file, message) ==
    [success |-> FALSE, fileName |-> BaseName(file), error |-> message,
     slimPath |-> NoPath, restored |-> Null]

OrchInit ==
    /\ files \in SeqsUpTo(Paths, MaxFiles)
    /\ restoreConfig \in RestoreConfigs
    /\ engine \in InitialEngines
    /\ disk = [f \in SlimPaths |-> NoFile]
    /\ pc = "start"
    /\ i = 0
    /\ configContent \in ConfigContents
    /\ configRead = "none"
    /\ excludeTables = <<>>
    /\ results = <<>>
    /\ error = ""
    /\ targetDbName = <<>>
    /\ restoreInfo = Null
    /\ stream = "none"
    /\ events = <<>>
    /\ ret = NoReturn
    /\ calls = <<>>
    /\ thrown = <<>>
    /\ faults = 0
    /\ connectionConfig = NotConfigured
    /\ fileSize = 0
    /\ bytesProcessed = 0
    /\ now = Epoch
    /\ lastProgressUpdate = 0
    /\ lastPercentage = 0
    /\ updates = <<>>
    /\ rich = "none"
    /\ reported = <<>>
    /\ FrontIdle

\* ensureMySQLConfig(); loadExcludeTables(configPath)
Start ==
    /\ pc = "start"
    /\ \E config \in StoreGet : connectionConfig' = SetMySQLConfig(config)
    /\ \E rd \in ReadResults :
         LET r == LoadExcludeTables(rd)
         IN  /\ configRead' = rd.code
             /\ Outcome(rd.code \in {"OK", "ENOENT"}, TRUE)
             /\ IF r.threw
                THEN OuterCatch(r.message) /\ UNCHANGED excludeTables
                ELSE excludeTables' = r.value /\ pc' = "ensure_dir" /\ UNCHANGED ret
    /\ UNCHANGED <<files, restoreConfig, i, results, error, targetDbName, restoreInfo,
                   stream, events, calls, thrown, engine, disk>>
    /\ UNCHANGED <<frontVars, configContent, slimVars, progVars>>

\* ensureDirectory(slimDir)
EnsureDirectory ==
    /\ pc = "ensure_dir"
    /\ \E ok \in BOOLEAN :
         /\ Outcome(ok, TRUE)
         /\ IF ok THEN pc' = "loop" /\ UNCHANGED ret ELSE OuterCatch(ErrMkdir)
    /\ UNCHANGED <<files, restoreConfig, i, configRead, excludeTables, results, error, targetDbName,
                   restoreInfo, stream, events, calls, thrown, engine, disk>>
    /\ UNCHANGED <<frontVars, configContent, connectionConfig, slimVars, progVars>>

\* Loop test passed: names derived, first progress event sent.
BeginItem ==
    /\ pc = "loop"
    /\ i < Len(files)
    /\ pc' = "ws_exists"
    /\ events' = Append(events, Ev("Creating temp database...", <<>>, 0))
    /\ calls' = <<>>
    /\ thrown' = <<>>
    /\ error' = ""
    /\ targetDbName' = <<>>
    /\ restoreInfo' = Null
    /\ updates' = <<>>
    /\ UNCHANGED <<files, restoreConfig, i, configRead, excludeTables, results, stream, ret,
                   engine, faults, disk>>
    /\ UNCHANGED <<frontVars, configContent, connectionConfig, slimVars>>
    /\ UNCHANGED <<fileSize, bytesProcessed, now, lastProgressUpdate, lastPercentage, rich, reported>>

\* Loop test failed: final progress event, return.
Finish ==
    /\ pc = "loop"
    /\ i >= Len(files)
    /\ events' = Append(events, FinalEvent)
    /\ ret' = BatchReturn(results)
    /\ pc' = "returned"
    /\ UNCHANGED <<files, restoreConfig, i, configRead, excludeTables, results, error, targetDbName,
                   restoreInfo, stream, calls, thrown, engine, faults, disk>>
    /\ UNCHANGED <<frontVars, configContent, connectionConfig, slimVars, progVars>>

\* if (await databaseExists(tempDbName))
WsExists ==
    /\ pc = "ws_exists"
    /\ calls' = Append(calls, Call("exists", tempDbName, NoPath, "try"))
    /\ \E ok \in BOOLEAN :
         /\ EngineOutcome(ok, TRUE)
         /\ IF ok
            THEN /\ pc' = IF DatabaseExists(tempDbName, engine) THEN "ws_drop" ELSE "ws_create"
                 /\ UNCHANGED <<error, thrown, ret>>
            ELSE CatchItemError(ErrCheck)
    /\ UNCHANGED <<files, restoreConfig, i, configRead, excludeTables, results, targetDbName,
                   restoreInfo, stream, events, engine, disk>>
    /\ UNCHANGED <<frontVars, configContent, connectionConfig, slimVars, progVars>>

\* await dropDatabase(tempDbName)   (workspace left by an earlier run)
WsDrop ==
    /\ pc = "ws_drop"
    /\ calls' = Append(calls, Call("drop", tempDbName, NoPath, "try"))
    /\ \E ok \in BOOLEAN :
         /\ EngineOutcome(ok, CanDrop(tempDbName, engine))
         /\ IF ok
            THEN /\ engine' = DropDatabase(tempDbName, engine)
                 /\ pc' = "ws_create"
                 /\ UNCHANGED <<error, thrown, ret>>
            ELSE CatchItemError(ErrDrop) /\ UNCHANGED engine
    /\ UNCHANGED <<files, restoreConfig, i, configRead, excludeTables, results, targetDbName,
                   restoreInfo, stream, events, disk>>
    /\ UNCHANGED <<frontVars, configContent, connectionConfig, slimVars, progVars>>

\* await createDatabase(tempDbName); progress 100
WsCreate ==
    /\ pc = "ws_create"
    /\ calls' = Append(calls, Call("create", tempDbName, NoPath, "try"))
    /\ \E ok \in BOOLEAN :
         /\ EngineOutcome(ok, CanCreate(tempDbName, engine))
         /\ IF ok
            THEN /\ engine' = CreateDatabase(tempDbName, engine)
                 /\ events' = Append(events, Ev("Creating temp database...", <<>>, 100))
                 /\ pc' = "stat_full"
                 /\ UNCHANGED <<error, thrown, ret>>
            ELSE CatchItemError(ErrCreate) /\ UNCHANGED <<engine, events>>
    /\ UNCHANGED <<files, restoreConfig, i, configRead, excludeTables, results, targetDbName,
                   restoreInfo, stream, disk>>
    /\ UNCHANGED <<frontVars, configContent, connectionConfig, slimVars, progVars>>

\* await fs.stat(fullSqlPath); first import event
StatFull ==
    /\ pc = "stat_full"
    /\ calls' = Append(calls, Call("stat", <<>>, cur, "try"))
    /\ \E ok \in BOOLEAN :
         /\ Outcome(ok, TRUE)
         /\ IF ok
            THEN /\ events' = Append(events, Ev("Importing full dump...", <<>>, 0))
                 /\ updates' = Append(updates, Opening("Importing full dump...", now))
                 /\ fileSize' \in FileSizes("import")
                 /\ lastProgressUpdate' = 0
                 /\ lastPercentage' = 0
                 /\ pc' = "import"
                 /\ UNCHANGED <<error, thrown, ret>>
            ELSE /\ CatchItemError(ErrStat)
                 /\ UNCHANGED <<events, updates, fileSize, lastProgressUpdate, lastPercentage>>
    /\ UNCHANGED <<files, restoreConfig, i, configRead, excludeTables, results, targetDbName,
                   restoreInfo, stream, engine, disk>>
    /\ UNCHANGED <<frontVars, configContent, connectionConfig, slimVars>>
    /\ UNCHANGED <<bytesProcessed, now, rich, reported>>

\* importSql(dbName, sqlFile, onProgress) is awaited at two places.
importDb == IF pc = "import" THEN tempDbName ELSE targetDbName
importFile == IF pc = "import" THEN cur ELSE slimPath
importSite == IF pc = "import" THEN "try" ELSE "restore"

\* An import that is started and not awaited: the handler goes on at once.
ImportSpawnNotAwaited ==
    /\ pc \in {"import", "restore_import"}
    /\ stream = "none"
    /\ stream' = "reading"
    /\ bytesProcessed' = 0
    /\ calls' = Append(calls, Call("import", importDb, importFile, importSite))
    /\ pc' = IF pc = "import" THEN "export" ELSE "db_info"
    /\ UNCHANGED <<files, restoreConfig, i, configRead, excludeTables, results, error,
                   targetDbName, restoreInfo, events, ret, thrown, engine, faults, disk>>
    /\ UNCHANGED <<frontVars, configContent, connectionConfig, slimVars>>
    /\ UNCHANGED <<fileSize, now, lastProgressUpdate, lastPercentage, updates, rich, reported>>

\* importSql: spawn mysql, createReadStream(sqlFile), fileStream.pipe(mysql.stdin)
ImportSpawn ==
    /\ pc \in {"import", "restore_import"}
    /\ stream = "none"
    /\ stream' = "reading"
    /\ bytesProcessed' = 0
    /\ calls' = Append(calls, Call("import", importDb, importFile, importSite))
    /\ UNCHANGED <<files, restoreConfig, pc, i, configRead, excludeTables, results, error,
                   targetDbName, restoreInfo, events, ret, thrown, engine, faults, disk>>
    /\ UNCHANGED <<frontVars, configContent, connectionConfig, slimVars>>
    /\ UNCHANGED <<fileSize, now, lastProgressUpdate, lastPercentage, updates, rich, reported>>

\* The read stream delivered its last chunk: pipe() ends mysql.stdin.
StreamEnd ==
    /\ pc \in {"import", "restore_import"}
    /\ stream = "reading"
    /\ bytesProcessed = fileSize
    /\ stream' = "ended"
    /\ UNCHANGED <<files, restoreConfig, pc, i, configRead, excludeTables, results, error,
                   targetDbName, restoreInfo, events, ret, calls, thrown, engine, faults,
                   disk>>
    /\ UNCHANGED <<frontVars, configContent, connectionConfig, slimVars, progVars>>

\* A restore callback that sends its events under the import's label.
importStepOfImportOnly == "Importing full dump..."

\* The label of the events the running import's callback sends.
importStep == IF pc = "import" THEN "Importing full dump..." ELSE "Restoring to "
importPhase == IF pc = "import" THEN "import" ELSE "restore"

\* Lengths the next chunk of the read stream can have: a stream delivers at
\* most MaxChunks unit chunks before the rest of the file arrives at once.
ChunkLens ==
    {fileSize - bytesProcessed} \cup
    (IF rich = importPhase /\ bytesProcessed < MaxChunks THEN {1} ELSE {})

\* The 'data' listener of importSql and the handler's callback it calls, for a
\* chunk of len bytes arriving dt milliseconds after the last callback.
OnData(len, dt) ==
    LET bytes == bytesProcessed + len
        t == now + dt
        percentage == ImportPercentage(bytes, fileSize)
        emit == ImportEmits(percentage, t, lastPercentage, lastProgressUpdate)
    IN  /\ bytesProcessed' = bytes
        /\ now' = t
        /\ updates' = Append(updates, Update(importStep, percentage, t, emit))
        /\ IF emit
           THEN /\ lastPercentage' = percentage
                /\ lastProgressUpdate' = t
                /\ events' = Append(events,
                       Ev(importStep, IF pc = "import" THEN <<>> ELSE targetDbName,
                          percentage))
           ELSE UNCHANGED <<lastPercentage, lastProgressUpdate, events>>

\* fileStream 'data': bytesProcessed += chunk.length; onProgress(bytesProcessed)
StreamData ==
    /\ pc \in {"import", "restore_import"}
    /\ stream = "reading"
    /\ bytesProcessed < fileSize
    /\ \E len \in ChunkLens, dt \in Elapses(importPhase) : OnData(len, dt)
    /\ UNCHANGED <<files, restoreConfig, pc, i, configRead, excludeTables, results, error,
                   targetDbName, restoreInfo, stream, ret, calls, thrown, engine, faults,
                   disk>>
    /\ UNCHANGED <<frontVars, configContent, connectionConfig, slimVars>>
    /\ UNCHANGED <<fileSize, rich, reported>>

\* The read stream emits 'error' (open or read failed).  importSql registers
\* no 'error' listener on it and pipe() does not end the destination when the
\* source fails: mysql.stdin stays open and the promise is not settled.
StreamError ==
    /\ pc \in {"import", "restore_import"}
    /\ stream = "reading"
    /\ stream' = "errored"
    /\ Outcome(FALSE, TRUE)
    /\ UNCHANGED <<files, restoreConfig, pc, i, configRead, excludeTables, results, error,
                   targetDbName, restoreInfo, events, ret, calls, thrown, engine, disk>>
    /\ UNCHANGED <<frontVars, configContent, connectionConfig, slimVars, progVars>>

\* A continuation that goes from the import straight to the cleanup.
AfterImportSkipsExport ==
    IF pc = "import"
    THEN /\ events' = Append(events, Ev("Exporting slim dump...", <<>>, 0))
         /\ updates' = Append(updates, Opening("Exporting slim dump...", now))
         /\ pc' = "drop_ws"
    ELSE /\ pc' = "db_info"
         /\ UNCHANGED <<events, updates>>

\* Continuation of the handler after  await importSql(...)  resolved.
AfterImport ==
    IF pc = "import"
    THEN /\ events' = Append(events, Ev("Exporting slim dump...", <<>>, 0))
         /\ updates' = Append(updates, Opening("Exporting slim dump...", now))
         /\ pc' = "export"
    ELSE /\ pc' = "db_info"
         /\ UNCHANGED <<events, updates>>

\* mysql 'close' after its stdin was ended: resolve on code 0, reject otherwise.
ImportExit ==
    /\ pc \in {"import", "restore_import"}
    /\ stream = "ended"
    /\ stream' = "none"
    /\ \E ok \in BOOLEAN :
         /\ EngineOutcome(ok, importDb \in Existing(engine))
         /\ IF ok
            THEN /\ engine' = ImportInto(importDb, importFile, engine)
                 /\ AfterImport
                 /\ UNCHANGED <<error, thrown, ret>>
            ELSE /\ engine' = ImportPartly(importDb, importFile, engine)
                 /\ CatchItemError(ErrImport)
                 /\ UNCHANGED <<events, updates>>
    /\ UNCHANGED <<files, restoreConfig, i, configRead, excludeTables, results, targetDbName,
                   restoreInfo, calls, disk>>
    /\ UNCHANGED <<frontVars, configContent, connectionConfig, slimVars>>
    /\ UNCHANGED <<fileSize, bytesProcessed, now, lastProgressUpdate, lastPercentage, rich, reported>>

\* mysql exits by itself, with a non-zero code, while its stdin is still open
\* (connection refused or lost, SQL error): reject.  The exit destroys
\* mysql.stdin, and the read stream is unpiped and paused only when the 'close'
\* of stdin is handled, later in the same turn of the event loop: a chunk
\* whose read completed in that turn still reaches the 'data' listener after
\* the rejection, before the first call of the catch block completes.
ImportAbort ==
    /\ pc \in {"import", "restore_import"}
    /\ stream \in {"reading", "errored"}
    /\ stream' = "none"
    /\ Outcome(FALSE, TRUE)
    /\ engine' = ImportPartly(importDb, importFile, engine)
    /\ CatchItemError(ErrImport)
    /\ \/ UNCHANGED <<events, bytesProcessed, now, updates, lastProgressUpdate,
                      lastPercentage>>
       \/ /\ stream = "reading"
          /\ bytesProcessed < fileSize
          /\ \E len \in ChunkLens, dt \in Elapses(importPhase) : OnData(len, dt)
    /\ UNCHANGED <<files, restoreConfig, i, configRead, excludeTables, results, targetDbName,
                   restoreInfo, calls, disk>>
    /\ UNCHANGED <<frontVars, configContent, connectionConfig, slimVars>>
    /\ UNCHANGED <<fileSize, rich, reported>>

\* What  await exportSlimSql(tempDbName, slimPath, excludeTables, cb)  can end
\* with: resolved, or rejected by one of its three phases.
ExportOutcomes == {"ok", ErrStructure, ErrData, ErrConcat}

\* exportSlimSql creates or truncates outFile only in its third phase.
DiskAfterExport(outcome, d, path, file) ==
    IF outcome = "ok" THEN [d EXCEPT ![path] = SlimFile(file)]
    ELSE IF outcome = ErrConcat THEN [d EXCEPT ![path] = PartialFile(file)]
    ELSE d

\* onProgress argument of the structure pass and of the data pass, whose
\* bytesWritten counter starts again from 0.
StructureProgress(bytesWritten) == bytesWritten \div 2
DataProgress(bytesWritten) == bytesWritten \div 2 + bytesWritten

\* The 'data' events of one mysqldump pass: a pass that exits with code 0 wrote
\* at least one chunk, a pass that fails wrote fewer chunks than that.
PassLimit == IF rich = "export" THEN MaxChunks ELSE 1
PassRuns(ok) ==
    IF ok THEN SeqsUpTo(ExportChunks, PassLimit) \ {<<>>}
    ELSE SeqsUpTo(ExportChunks, PassLimit - 1)

RECURSIVE Written(_)
Written(run) == IF run = <<>> THEN 0 ELSE Written(Front(run)) + Last(run).len

RECURSIVE Elapsed(_)
Elapsed(run) == IF run = <<>> THEN 0 ELSE Elapsed(Front(run)) + Last(run).dt

\* The byte counters the handler's export callback receives, with their times.
StructureCalls(run, t) ==
    [k \in 1..Len(run) |->
        [bytes |-> StructureProgress(Written(SubSeq(run, 1, k))),
         at |-> t + Elapsed(SubSeq(run, 1, k))]]
DataCalls(run, t) ==
    [k \in 1..Len(run) |->
        [bytes |-> DataProgress(Written(SubSeq(run, 1, k))),
         at |-> t + Elapsed(SubSeq(run, 1, k))]]
ExportCalls(run1, run2, t) ==
    StructureCalls(run1, t) \o DataCalls(run2, t + Elapsed(run1))

\* The arguments of onProgress over one call of exportSlimSql, each with the
\* pass that reported it.
Reported(run1, run2) ==
    [k \in 1..Len(run1) |->
        [pass |-> "structure", bytes |-> StructureProgress(Written(SubSeq(run1, 1, k)))]]
    \o [k \in 1..Len(run2) |->
        [pass |-> "data", bytes |-> DataProgress(Written(SubSeq(run2, 1, k)))]]

\* The handler's export callback applied to the counters in turn: the update
\* log, with lastExportPercentage and lastExportUpdate starting from 0.
RECURSIVE ExportLog(_)
ExportLog(cs) ==
    IF cs = <<>> THEN <<>>
    ELSE LET before == ExportLog(Front(cs))
             sent == SelectSeq(before, LAMBDA u : u.emitted)
             lastPct == IF sent = <<>> THEN 0 ELSE Last(sent).percentage
             lastUpdate == IF sent = <<>> THEN 0 ELSE Last(sent).at
             c == Last(cs)
             percentage == ExportPercentage(c.bytes)
         IN  Append(before,
                    Update("Exporting slim dump...", percentage, c.at,
                           ExportEmits(percentage, c.at, lastPct, lastUpdate)))

RECURSIVE ExportEvents(_)
ExportEvents(log) ==
    IF log = <<>> THEN <<>>
    ELSE ExportEvents(Front(log)) \o
         (IF Last(log).emitted
          THEN <<Ev("Exporting slim dump...", <<>>, Last(log).percentage)>>
          ELSE <<>>)

ExportSlim ==
    /\ pc = "export"
    /\ calls' = Append(calls, Call("exportSlim", tempDbName, slimPath, "try"))
    /\ \E outcome \in ExportOutcomes :
       \E run1 \in PassRuns(outcome # ErrStructure) :
       \E run2 \in IF outcome = ErrStructure THEN {<<>>} ELSE PassRuns(outcome # ErrData) :
         LET log == ExportLog(ExportCalls(run1, run2, now))
         IN  /\ EngineOutcome(outcome = "ok", TRUE)
             /\ disk' = DiskAfterExport(outcome, disk, slimPath, cur)
             /\ now' = now + Elapsed(run1) + Elapsed(run2)
             /\ updates' = updates \o log
             /\ reported' = Reported(run1, run2)
             /\ IF outcome = "ok"
                THEN /\ events' = events \o ExportEvents(log) \o
                                     <<Ev("Cleaning up...", <<>>, 0)>>
                     /\ pc' = "drop_ws"
                     /\ UNCHANGED <<error, thrown, ret>>
                ELSE /\ CatchItemError(outcome)
                     /\ events' = events \o ExportEvents(log)
    /\ UNCHANGED <<files, restoreConfig, i, configRead, excludeTables, results, targetDbName,
                   restoreInfo, stream, engine>>
    /\ UNCHANGED <<frontVars, configContent, connectionConfig, slimVars>>
    /\ UNCHANGED <<fileSize, bytesProcessed, lastProgressUpdate, lastPercentage, rich>>

\* A target taken from the request whether or not restore is switched on.
RestoreTargetWhenNamed(rc, file) ==
    IF rc.isNull THEN <<>> ELSE rc.databaseNames[file]

\* restoreConfig.databaseNames[fullSqlPath] when restore is enabled, else none
RestoreTarget(rc, file) ==
    IF WantsRestore(rc) THEN rc.databaseNames[file] ELSE <<>>

\* await dropDatabase(tempDbName); progress 100; decide on the restore
DropWs ==
    /\ pc = "drop_ws"
    /\ calls' = Append(calls, Call("drop", tempDbName, NoPath, "try"))
    /\ \E ok \in BOOLEAN :
         /\ EngineOutcome(ok, CanDrop(tempDbName, engine))
         /\ IF ok
            THEN /\ engine' = DropDatabase(tempDbName, engine)
                 /\ LET target == RestoreTarget(restoreConfig, cur)
                    IN  IF target # <<>>
                        THEN /\ targetDbName' = target
                             /\ events' = events \o
                                    <<Ev("Cleaning up...", <<>>, 100),
                                      Ev("Restoring to ", target, 0)>>
                             /\ updates' = Append(updates, Opening("Restoring to ", now))
                             /\ pc' = "tgt_exists"
                        ELSE /\ events' = Append(events, Ev("Cleaning up...", <<>>, 100))
                             /\ pc' = "stat_results"
                             /\ UNCHANGED <<targetDbName, updates>>
                 /\ UNCHANGED <<error, thrown, ret>>
            ELSE CatchItemError(ErrDrop) /\ UNCHANGED <<engine, events, targetDbName, updates>>
    /\ UNCHANGED <<files, restoreConfig, i, configRead, excludeTables, results, restoreInfo,
                   stream, disk>>
    /\ UNCHANGED <<frontVars, configContent, connectionConfig, slimVars>>
    /\ UNCHANGED <<fileSize, bytesProcessed, now, lastProgressUpdate, lastPercentage, rich, reported>>

\* if (await databaseExists(targetDbName))
TgtExists ==
    /\ pc = "tgt_exists"
    /\ calls' = Append(calls, Call("exists", targetDbName, NoPath, "restore"))
    /\ \E ok \in BOOLEAN :
         /\ EngineOutcome(ok, TRUE)
         /\ IF ok
            THEN /\ pc' = IF DatabaseExists(targetDbName, engine) THEN "tgt_drop" ELSE "tgt_create"
                 /\ UNCHANGED <<error, thrown, ret>>
            ELSE CatchItemError(ErrCheck)
    /\ UNCHANGED <<files, restoreConfig, i, configRead, excludeTables, results, targetDbName,
                   restoreInfo, stream, events, engine, disk>>
    /\ UNCHANGED <<frontVars, configContent, connectionConfig, slimVars, progVars>>

\* await dropDatabase(targetDbName)
TgtDrop ==
    /\ pc = "tgt_drop"
    /\ calls' = Append(calls, Call("drop", targetDbName, NoPath, "restore"))
    /\ \E ok \in BOOLEAN :
         /\ EngineOutcome(ok, CanDrop(targetDbName, engine))
         /\ IF ok
            THEN /\ engine' = DropDatabase(targetDbName, engine)
                 /\ pc' = "tgt_create"
                 /\ UNCHANGED <<error, thrown, ret>>
            ELSE CatchItemError(ErrDrop) /\ UNCHANGED engine
    /\ UNCHANGED <<files, restoreConfig, i, configRead, excludeTables, results, targetDbName,
                   restoreInfo, stream, events, disk>>
    /\ UNCHANGED <<frontVars, configContent, connectionConfig, slimVars, progVars>>

\* await createDatabase(targetDbName)
TgtCreate ==
    /\ pc = "tgt_create"
    /\ calls' = Append(calls, Call("create", targetDbName, NoPath, "restore"))
    /\ \E ok \in BOOLEAN :
         /\ EngineOutcome(ok, CanCreate(targetDbName, engine))
         /\ IF ok
            THEN /\ engine' = CreateDatabase(targetDbName, engine)
                 /\ pc' = "stat_slim"
                 /\ UNCHANGED <<error, thrown, ret>>
            ELSE CatchItemError(ErrCreate) /\ UNCHANGED engine
    /\ UNCHANGED <<files, restoreConfig, i, configRead, excludeTables, results, targetDbName,
                   restoreInfo, stream, events, disk>>
    /\ UNCHANGED <<frontVars, configContent, connectionConfig, slimVars, progVars>>

\* await fs.stat(slimPath)
StatSlim ==
    /\ pc = "stat_slim"
    /\ calls' = Append(calls, Call("stat", <<>>, slimPath, "restore"))
    /\ \E ok \in BOOLEAN :
         /\ Outcome(ok, TRUE)
         /\ IF ok
            THEN /\ fileSize' \in FileSizes("restore")
                 /\ lastProgressUpdate' = 0
                 /\ lastPercentage' = 0
                 /\ pc' = "restore_import"
                 /\ UNCHANGED <<error, thrown, ret>>
            ELSE /\ CatchItemError(ErrStat)
                 /\ UNCHANGED <<fileSize, lastProgressUpdate, lastPercentage>>
    /\ UNCHANGED <<files, restoreConfig, i, configRead, excludeTables, results, targetDbName,
                   restoreInfo, stream, events, engine, disk>>
    /\ UNCHANGED <<frontVars, configContent, connectionConfig, slimVars>>
    /\ UNCHANGED <<bytesProcessed, now, updates, rich, reported>>

\* await getDatabaseInfo(targetDbName); restoreInfo = {...}
DbInfo ==
    /\ pc = "db_info"
    /\ calls' = Append(calls, Call("dbinfo", targetDbName, NoPath, "restore"))
    /\ \E ok \in BOOLEAN :
         /\ EngineOutcome(ok, TRUE)
         /\ IF ok
            THEN /\ restoreInfo' = targetDbName
                 /\ pc' = "stat_results"
                 /\ UNCHANGED <<error, thrown, ret>>
            ELSE CatchItemError(ErrConnect) /\ UNCHANGED restoreInfo
    /\ UNCHANGED <<files, restoreConfig, i, configRead, excludeTables, results, targetDbName,
                   stream, events, engine, disk>>
    /\ UNCHANGED <<frontVars, configContent, connectionConfig, slimVars, progVars>>

\* fs.stat(fullSqlPath), fs.stat(slimPath), results.push({success: true, ...})
PushSuccess ==
    /\ pc = "stat_results"
    /\ \E outcome \in {"ok", "full_gone", "slim_gone"} :
         /\ Outcome(outcome = "ok", TRUE)
         /\ calls' = calls \o
                (IF outcome = "full_gone"
                 THEN <<Call("stat", <<>>, cur, "try")>>
                 ELSE <<Call("stat", <<>>, cur, "try"), Call("stat", <<>>, slimPath, "try")>>)
         /\ IF outcome = "ok"
            THEN /\ \E sizes \in StatSizes :
                      results' = Append(results, SizedResult(cur, restoreInfo, sizes))
                 /\ i' = i + 1
                 /\ pc' = "loop"
                 /\ UNCHANGED <<error, thrown, ret>>
            ELSE CatchItemError(ErrStat) /\ UNCHANGED <<results, i>>
    /\ UNCHANGED <<files, restoreConfig, configRead, excludeTables, targetDbName, restoreInfo,
                   stream, events, engine, disk>>
    /\ UNCHANGED <<frontVars, configContent, connectionConfig, slimVars, progVars>>

\* A catch block that records the failure without the cleanup try.
CleanupSkipped ==
    /\ pc = "cleanup_exists"
    /\ pc' = "push_fail"
    /\ UNCHANGED <<files, restoreConfig, i, configRead, excludeTables, results, error,
                   targetDbName, restoreInfo, stream, events, ret, calls, thrown, engine,
                   faults, disk>>
    /\ UNCHANGED <<frontVars, configContent, connectionConfig, slimVars, progVars>>

\* catch (error) { try { if (await databaseExists(tempDbName))
CleanupExists ==
    /\ pc = "cleanup_exists"
    /\ calls' = Append(calls, Call("exists", tempDbName, NoPath, "catch"))
    /\ \E ok \in BOOLEAN :
         /\ EngineOutcome(ok, TRUE)
         /\ IF ok
            THEN /\ pc' = IF DatabaseExists(tempDbName, engine) THEN "cleanup_drop" ELSE "push_fail"
                 /\ UNCHANGED <<error, thrown, ret>>
            ELSE SwallowCleanupError(ErrCheck)
    /\ UNCHANGED <<files, restoreConfig, i, configRead, excludeTables, results, targetDbName,
                   restoreInfo, stream, events, engine, disk>>
    /\ UNCHANGED <<frontVars, configContent, connectionConfig, slimVars, progVars>>

\* await dropDatabase(tempDbName) } catch {}
CleanupDrop ==
    /\ pc = "cleanup_drop"
    /\ calls' = Append(calls, Call("drop", tempDbName, NoPath, "catch"))
    /\ \E ok \in BOOLEAN :
         /\ EngineOutcome(ok, CanDrop(tempDbName, engine))
         /\ IF ok
            THEN /\ engine' = DropDatabase(tempDbName, engine)
                 /\ pc' = "push_fail"
                 /\ UNCHANGED <<error, thrown, ret>>
            ELSE SwallowCleanupError(ErrDrop) /\ UNCHANGED engine
    /\ UNCHANGED <<files, restoreConfig, i, configRead, excludeTables, results, targetDbName,
                   restoreInfo, stream, events, disk>>
    /\ UNCHANGED <<frontVars, configContent, connectionConfig, slimVars, progVars>>

\* results.push({success: false, fileName, error: error.message})
PushFailure ==
    /\ pc = "push_fail"
    /\ results' = Append(results, FailedResult(cur, error))
    /\ i' = i + 1
    /\ pc' = "loop"
    /\ UNCHANGED <<files, restoreConfig, configRead, excludeTables, error, targetDbName, restoreInfo,
                   stream, events, ret, calls, thrown, engine, faults, disk>>
    /\ UNCHANGED <<frontVars, configContent, connectionConfig, slimVars, progVars>>

OrchNext ==
    \/ Start \/ EnsureDirectory \/ BeginItem \/ Finish
    \/ WsExists \/ WsDrop \/ WsCreate \/ StatFull
    \/ ImportSpawn \/ StreamData \/ StreamEnd \/ StreamError \/ ImportExit \/ ImportAbort
    \/ ExportSlim \/ DropWs
    \/ TgtExists \/ TgtDrop \/ TgtCreate \/ StatSlim \/ DbInfo
    \/ PushSuccess \/ CleanupExists \/ CleanupDrop \/ PushFailure

----------------------------------------------------------------------------
(* electron/ipc-handlers.js: restore:start                                 *)

\* The handler is called with (dbName, sqlFile): targetDbName holds dbName and
\* files holds sqlFile as its only element.
sqlFile == files[1]

\* senderWindow.send(progressChannel, { bytesProcessed })
BytesEvent(bytes) == [bytesProcessed |-> bytes]

\* catch (error) { throw new Error(`Restore failed: ${error.message}`) }
RestoreCatch(message) ==
    /\ pc' = "rejected"
    /\ thrown' = Append(thrown, Raised(message, "restore:start"))
    /\ ret' = [kind |-> "throw", success |-> FALSE, results |-> <<>>,
               error |-> <<"Restore failed: ", message>>]

\* The state of the handlers that restore:start leaves alone.
restoreIdle ==
    <<files, restoreConfig, i, configContent, configRead, excludeTables, results, error,
      targetDbName, restoreInfo, stream, disk>>

\* ensureMySQLConfig()
RsStart ==
    /\ pc = "rs_start"
    /\ \E config \in StoreGet : connectionConfig' = SetMySQLConfig(config)
    /\ pc' = "rs_exists"
    /\ UNCHANGED <<restoreIdle, events, ret, calls, thrown, engine, faults>>
    /\ UNCHANGED <<frontVars, slimVars, progVars>>

\* const exists = await databaseExists(dbName)
RsExists ==
    /\ pc = "rs_exists"
    /\ calls' = Append(calls, Call("exists", targetDbName, NoPath, "restore:start"))
    /\ \E ok \in BOOLEAN :
         /\ EngineOutcome(ok, TRUE)
         /\ IF ok
            THEN /\ pc' = IF DatabaseExists(targetDbName, engine) THEN "rs_drop" ELSE "rs_create"
                 /\ UNCHANGED <<thrown, ret>>
            ELSE RestoreCatch(ErrCheck)
    /\ UNCHANGED <<restoreIdle, events, engine, connectionConfig>>
    /\ UNCHANGED <<frontVars, slimVars, progVars>>

\* if (exists) await dropDatabase(dbName)
RsDrop ==
    /\ pc = "rs_drop"
    /\ calls' = Append(calls, Call("drop", targetDbName, NoPath, "restore:start"))
    /\ \E ok \in BOOLEAN :
         /\ EngineOutcome(ok, CanDrop(targetDbName, engine))
         /\ IF ok
            THEN /\ engine' = DropDatabase(targetDbName, engine)
                 /\ pc' = "rs_create"
                 /\ UNCHANGED <<thrown, ret>>
            ELSE RestoreCatch(ErrDrop) /\ UNCHANGED engine
    /\ UNCHANGED <<restoreIdle, events, connectionConfig>>
    /\ UNCHANGED <<frontVars, slimVars, progVars>>

\* A create whose failure is not noticed.
RsCreateUnchecked ==
    /\ pc = "rs_create"
    /\ calls' = Append(calls, Call("create", targetDbName, NoPath, "restore:start"))
    /\ \E ok \in BOOLEAN :
         /\ EngineOutcome(ok, CanCreate(targetDbName, engine))
         /\ engine' = IF ok THEN CreateDatabase(targetDbName, engine) ELSE engine
         /\ pc' = "rs_import"
         /\ UNCHANGED <<thrown, ret>>
    /\ UNCHANGED <<restoreIdle, events, connectionConfig>>
    /\ UNCHANGED <<frontVars, slimVars, progVars>>

\* await createDatabase(dbName)
RsCreate ==
    /\ pc = "rs_create"
    /\ calls' = Append(calls, Call("create", targetDbName, NoPath, "restore:start"))
    /\ \E ok \in BOOLEAN :
         /\ EngineOutcome(ok, CanCreate(targetDbName, engine))
         /\ IF ok
            THEN /\ engine' = CreateDatabase(targetDbName, engine)
                 /\ pc' = "rs_import"
                 /\ UNCHANGED <<thrown, ret>>
            ELSE RestoreCatch(ErrCreate) /\ UNCHANGED engine
    /\ UNCHANGED <<restoreIdle, events, connectionConfig>>
    /\ UNCHANGED <<frontVars, slimVars, progVars>>

\* await importSql(dbName, sqlFile, onProgress): the file of one byte is
\* delivered in one chunk, for which the callback sends one event; mysql
\* applies every statement and exits with 0, or only some and exits otherwise.
RsImport ==
    /\ pc = "rs_import"
    /\ calls' = Append(calls, Call("import", targetDbName, sqlFile, "restore:start"))
    /\ events' = Append(events, BytesEvent(1))
    /\ \E ok \in BOOLEAN :
         /\ EngineOutcome(ok, targetDbName \in Existing(engine))
         /\ IF ok
            THEN /\ engine' = ImportInto(targetDbName, sqlFile, engine)
                 /\ pc' = "rs_info"
                 /\ UNCHANGED <<thrown, ret>>
            ELSE /\ engine' = ImportPartly(targetDbName, sqlFile, engine)
                 /\ RestoreCatch(ErrImport)
    /\ UNCHANGED <<restoreIdle, connectionConfig>>
    /\ UNCHANGED <<frontVars, slimVars, progVars>>

\* const info = await getDatabaseInfo(dbName); return { success: true, ... }
RsInfo ==
    /\ pc = "rs_info"
    /\ calls' = Append(calls, Call("dbinfo", targetDbName, NoPath, "restore:start"))
    /\ \E ok \in BOOLEAN :
         /\ EngineOutcome(ok, TRUE)
         /\ IF ok
            THEN /\ pc' = "returned"
                 /\ ret' = [kind |-> "return", success |-> TRUE, results |-> <<>>,
                            error |-> <<>>]
                 /\ UNCHANGED thrown
            ELSE RestoreCatch(ErrConnect)
    /\ UNCHANGED <<restoreIdle, events, engine, connectionConfig>>
    /\ UNCHANGED <<frontVars, slimVars, progVars>>

RestoreStartNext == RsStart \/ RsExists \/ RsDrop \/ RsCreate \/ RsImport \/ RsInfo

----------------------------------------------------------------------------
(* unnamed/part_003: slimFlow and createSlimDump of the command line       *)

\* getMysqlCliArgs() reads connectionConfig.user: while connectionConfig is
\* null every call that builds its arguments throws this instead.
ErrNoConfig == "Cannot read properties of null (reading 'user')"
CliError(message) == IF connectionConfig = NotConfigured THEN ErrNoConfig ELSE message

\* The state that the command-line flow leaves alone.
cliIdle ==
    <<restoreConfig, configContent, configRead, excludeTables, targetDbName, restoreInfo,
      stream, events, ret, connectionConfig>>

\* catch (error) { spinner.fail(...); console.log(`  Error: ${error.message}`)
\* results holds what the spinner reported for each file.
CliCatch(message) ==
    /\ error' = message
    /\ thrown' = Append(thrown, Raised(message, "try"))
    /\ results' = Append(results, FailedResult(cur, message))
    /\ pc' = "cli_cleanup_exists"

\* for (const file of filesToProcess) { await createSlimDump(file, ...)
CliBeginItem ==
    /\ pc = "cli_loop"
    /\ i < Len(files)
    /\ pc' = "cli_exists"
    /\ calls' = <<>>
    /\ thrown' = <<>>
    /\ error' = ""
    /\ UNCHANGED <<i, results, engine, faults, disk>>
    /\ UNCHANGED <<files, cliIdle>>
    /\ UNCHANGED <<frontVars, slimVars, progVars>>

\* console.log('All slim dumps created successfully!')
CliFinish ==
    /\ pc = "cli_loop"
    /\ i = Len(files)
    /\ pc' = "cli_done"
    /\ UNCHANGED <<i, results, error, calls, thrown, engine, faults, disk>>
    /\ UNCHANGED <<files, cliIdle>>
    /\ UNCHANGED <<frontVars, slimVars, progVars>>

\* if (await databaseExists(tempDbName))
CliExists ==
    /\ pc = "cli_exists"
    /\ calls' = Append(calls, Call("exists", tempDbName, NoPath, "try"))
    /\ \E ok \in BOOLEAN :
         /\ EngineOutcome(ok, TRUE)
         /\ IF ok
            THEN /\ pc' = IF DatabaseExists(tempDbName, engine) THEN "cli_drop" ELSE "cli_create"
                 /\ UNCHANGED <<error, thrown, results>>
            ELSE CliCatch(CliError(ErrCheck))
    /\ UNCHANGED <<i, engine, disk>>
    /\ UNCHANGED <<files, cliIdle>>
    /\ UNCHANGED <<frontVars, slimVars, progVars>>

\* await dropDatabase(tempDbName)   (workspace left by an earlier run)
CliDrop ==
    /\ pc = "cli_drop"
    /\ calls' = Append(calls, Call("drop", tempDbName, NoPath, "try"))
    /\ \E ok \in BOOLEAN :
         /\ EngineOutcome(ok, CanDrop(tempDbName, engine))
         /\ IF ok
            THEN /\ engine' = DropDatabase(tempDbName, engine) /\ pc' = "cli_create"
                 /\ UNCHANGED <<error, thrown, results>>
            ELSE CliCatch(CliError(ErrDrop)) /\ UNCHANGED engine
    /\ UNCHANGED <<i, disk>>
    /\ UNCHANGED <<files, cliIdle>>
    /\ UNCHANGED <<frontVars, slimVars, progVars>>

\* await createDatabase(tempDbName)
CliCreate ==
    /\ pc = "cli_create"
    /\ calls' = Append(calls, Call("create", tempDbName, NoPath, "try"))
    /\ \E ok \in BOOLEAN :
         /\ EngineOutcome(ok, CanCreate(tempDbName, engine))
         /\ IF ok
            THEN /\ engine' = CreateDatabase(tempDbName, engine) /\ pc' = "cli_import"
                 /\ UNCHANGED <<error, thrown, results>>
            ELSE CliCatch(CliError(ErrCreate)) /\ UNCHANGED engine
    /\ UNCHANGED <<i, disk>>
    /\ UNCHANGED <<files, cliIdle>>
    /\ UNCHANGED <<frontVars, slimVars, progVars>>

\* await importSql(tempDbName, fullSqlPath, () => {})
CliImport ==
    /\ pc = "cli_import"
    /\ calls' = Append(calls, Call("import", tempDbName, cur, "try"))
    /\ \E ok \in BOOLEAN :
         /\ EngineOutcome(ok, tempDbName \in Existing(engine))
         /\ IF ok
            THEN /\ engine' = ImportInto(tempDbName, cur, engine)
                 /\ pc' = "cli_export"
                 /\ UNCHANGED <<error, thrown, results>>
            ELSE /\ engine' = IF connectionConfig = NotConfigured THEN engine
                               ELSE ImportPartly(tempDbName, cur, engine)
                 /\ CliCatch(CliError(ErrImport))
    /\ UNCHANGED <<i, disk>>
    /\ UNCHANGED <<files, cliIdle>>
    /\ UNCHANGED <<frontVars, slimVars, progVars>>

\* await exportSlimSql(tempDbName, slimPath, excludeTables, () => {})
CliExport ==
    /\ pc = "cli_export"
    /\ calls' = Append(calls, Call("exportSlim", tempDbName, slimPath, "try"))
    /\ \E outcome \in ExportOutcomes :
         /\ EngineOutcome(outcome = "ok", TRUE)
         /\ disk' = DiskAfterExport(outcome, disk, slimPath, cur)
         /\ IF outcome = "ok"
            THEN pc' = "cli_drop_ws" /\ UNCHANGED <<error, thrown, results>>
            ELSE CliCatch(outcome)
    /\ UNCHANGED <<i, engine>>
    /\ UNCHANGED <<files, cliIdle>>
    /\ UNCHANGED <<frontVars, slimVars, progVars>>

\* await dropDatabase(tempDbName)   (step 4: cleanup)
CliDropWs ==
    /\ pc = "cli_drop_ws"
    /\ calls' = Append(calls, Call("drop", tempDbName, NoPath, "try"))
    /\ \E ok \in BOOLEAN :
         /\ EngineOutcome(ok, CanDrop(tempDbName, engine))
         /\ IF ok
            THEN /\ engine' = DropDatabase(tempDbName, engine) /\ pc' = "cli_stats"
                 /\ UNCHANGED <<error, thrown, results>>
            ELSE CliCatch(CliError(ErrDrop)) /\ UNCHANGED engine
    /\ UNCHANGED <<i, disk>>
    /\ UNCHANGED <<files, cliIdle>>
    /\ UNCHANGED <<frontVars, slimVars, progVars>>

\* fs.stat(fullSqlPath), fs.stat(slimPath), spinner.succeed(...); the call
\* returns and the loop goes on.
CliStats ==
    /\ pc = "cli_stats"
    /\ \E outcome \in {"ok", "full_gone", "slim_gone"} :
         /\ Outcome(outcome = "ok", TRUE)
         /\ calls' = calls \o
                (IF outcome = "full_gone"
                 THEN <<Call("stat", <<>>, cur, "try")>>
                 ELSE <<Call("stat", <<>>, cur, "try"), Call("stat", <<>>, slimPath, "try")>>)
         /\ IF outcome = "ok"
            THEN /\ results' = Append(results, SuccessResult(cur, Null))
                 /\ i' = i + 1
                 /\ pc' = "cli_loop"
                 /\ UNCHANGED <<error, thrown>>
            ELSE CliCatch(ErrStat) /\ UNCHANGED i
    /\ UNCHANGED <<engine, disk>>
    /\ UNCHANGED <<files, cliIdle>>
    /\ UNCHANGED <<frontVars, slimVars, progVars>>

\* catch: try { if (await databaseExists(tempDbName))
CliCleanupExists ==
    /\ pc = "cli_cleanup_exists"
    /\ calls' = Append(calls, Call("exists", tempDbName, NoPath, "catch"))
    /\ \E ok \in BOOLEAN :
         /\ EngineOutcome(ok, TRUE)
         /\ IF ok
            THEN /\ pc' = IF DatabaseExists(tempDbName, engine)
                           THEN "cli_cleanup_drop" ELSE "cli_throw"
                 /\ UNCHANGED thrown
            ELSE /\ thrown' = Append(thrown, Raised(CliError(ErrCheck), "catch"))
                 /\ pc' = "cli_throw"
    /\ UNCHANGED <<i, results, error, engine, disk>>
    /\ UNCHANGED <<files, cliIdle>>
    /\ UNCHANGED <<frontVars, slimVars, progVars>>

\* await dropDatabase(tempDbName) } catch { }
CliCleanupDrop ==
    /\ pc = "cli_cleanup_drop"
    /\ calls' = Append(calls, Call("drop", tempDbName, NoPath, "catch"))
    /\ \E ok \in BOOLEAN :
         /\ EngineOutcome(ok, CanDrop(tempDbName, engine))
         /\ IF ok
            THEN /\ engine' = DropDatabase(tempDbName, engine)
                 /\ UNCHANGED thrown
            ELSE /\ thrown' = Append(thrown, Raised(CliError(ErrDrop), "catch"))
                 /\ UNCHANGED engine
    /\ pc' = "cli_throw"
    /\ UNCHANGED <<i, results, error, disk>>
    /\ UNCHANGED <<files, cliIdle>>
    /\ UNCHANGED <<frontVars, slimVars, progVars>>

\* throw error: createSlimDump rejects, and so does slimFlow, whose loop
\* awaits it outside any try.
CliThrow ==
    /\ pc = "cli_throw"
    /\ pc' = "cli_rejected"
    /\ UNCHANGED <<i, results, error, calls, thrown, engine, faults, disk>>
    /\ UNCHANGED <<files, cliIdle>>
    /\ UNCHANGED <<frontVars, slimVars, progVars>>

CliNext ==
    \/ CliBeginItem \/ CliFinish \/ CliExists \/ CliDrop \/ CliCreate \/ CliImport
    \/ CliExport \/ CliDropWs \/ CliStats \/ CliCleanupExists \/ CliCleanupDrop \/ CliThrow

----------------------------------------------------------------------------
(* src/components/Slim.jsx: the names the screen puts into the request     *)

\* name.replace(/<suffix>$/i, replacement) on lower-case names
ReplaceSuffix(name, suffix, replacement) ==
    IF EndsWith(name, suffix)
    THEN SubSeq(name, 1, Len(name) - Len(suffix)) \o replacement
    ELSE name

\* getDefaultDbName: drop .sql, drop _slim, turn a final _prod or _sd into _dev
GetDefaultDbName(filename) ==
    LET noExt == ReplaceSuffix(filename, DotSql, <<>>)
        noSlim == ReplaceSuffix(noExt, <<"_", "s", "l", "i", "m">>, <<>>)
        dev == <<"_", "d", "e", "v">>
    IN  IF EndsWith(noSlim, <<"_", "p", "r", "o", "d">>)
        THEN ReplaceSuffix(noSlim, <<"_", "p", "r", "o", "d">>, dev)
        ELSE ReplaceSuffix(noSlim, <<"_", "s", "d">>, dev)

\* handleFileToggle / handleSelectAll: every selected file gets its default
\* name; handleProcess sends them with restore switched on.
DefaultRequest(fs) ==
    [isNull |-> FALSE, enabled |-> TRUE,
     databaseNames |-> [p \in {fs[k] : k \in 1..Len(fs)} |-> GetDefaultDbName(p.name)]]

----------------------------------------------------------------------------
(* src/components/Settings.jsx and the settings handlers                   *)

\* What the user can type into the connection form: the server that is
\* there, and a host on which no server listens.
FormConfigs == {DefaultSettings, [DefaultSettings EXCEPT !.host = "db"]}

\* The state of slim:start that no settings handler touches.
handlerVars ==
    <<files, restoreConfig, pc, i, configContent, configRead, excludeTables, results, error,
      targetDbName, restoreInfo, stream, events, ret, calls, thrown, engine, disk>>

\* ipcMain.handle('settings:saveMySQLConfig'): the setMySQLConfig in scope is
\* the one imported from lib/mysql.js; electron/settings.js's setter of the
\* same name is not imported, so that nothing is written to the store.
SaveMySQLConfig(config) ==
    /\ connectionConfig' = SetMySQLConfig(config)
    /\ UNCHANGED store

\* useEffect(loadSettings): the form shows what settings:getMySQLConfig gives
LoadSettings ==
    /\ screen = "closed"
    /\ mysqlConfig' \in StoreGet
    /\ screen' = "idle"
    /\ UNCHANGED <<store, tested, snapshotType, sideVars, connectionConfig, faults>>
    /\ UNCHANGED <<handlerVars, slimVars, progVars>>

\* handleMysqlChange: the user edits the form
HandleMysqlChange ==
    /\ screen = "idle"
    /\ mysqlConfig' \in FormConfigs \ {mysqlConfig}
    /\ UNCHANGED <<store, screen, tested, snapshotType, sideVars, connectionConfig, faults>>
    /\ UNCHANGED <<handlerVars, slimVars, progVars>>

\* handleTestConnection: await window.dbManager.saveMySQLConfig(mysqlConfig)
TestSave ==
    /\ screen = "idle"
    /\ SaveMySQLConfig(mysqlConfig)
    /\ screen' = "test_saved"
    /\ UNCHANGED <<mysqlConfig, tested, snapshotType, sideVars, faults>>
    /\ UNCHANGED <<handlerVars, slimVars, progVars>>

\* handleTestConnection: await window.dbManager.testConnection(), that is
\* mysql:testConnection: ensureMySQLConfig(), then createConnection() with
\* the module's connectionConfig.
TestConnection ==
    /\ screen = "test_saved"
    /\ \E config \in StoreGet, ok \in BOOLEAN :
         /\ connectionConfig' = SetMySQLConfig(config)
         /\ Outcome(ok, Connectable(connectionConfig'))
         /\ tested' = [done |-> TRUE, form |-> mysqlConfig, with |-> connectionConfig',
                      success |-> ok]
    /\ screen' = "idle"
    /\ UNCHANGED <<store, mysqlConfig, snapshotType, sideVars>>
    /\ UNCHANGED <<handlerVars, slimVars, progVars>>

\* handleSave: await window.dbManager.saveMySQLConfig(mysqlConfig)
SaveSave ==
    /\ screen = "idle"
    /\ SaveMySQLConfig(mysqlConfig)
    /\ screen' = "save_saved"
    /\ UNCHANGED <<mysqlConfig, tested, snapshotType, sideVars, faults>>
    /\ UNCHANGED <<handlerVars, slimVars, progVars>>

\* handleSave: await window.dbManager.saveDatabaseDirectory(...); 'Settings
\* saved successfully!'
SaveDone ==
    /\ screen = "save_saved"
    /\ screen' = "idle"
    /\ UNCHANGED <<store, mysqlConfig, tested, snapshotType, sideVars, connectionConfig, faults>>
    /\ UNCHANGED <<handlerVars, slimVars, progVars>>

SettingsNext ==
    \/ LoadSettings \/ HandleMysqlChange \/ TestSave \/ TestConnection \/ SaveSave \/ SaveDone

----------------------------------------------------------------------------
(* lib/mysql.js: exportSlimSql                                             *)

\* Longest excludeDataTables list explored.
MaxExclude == 2

\* Command-line words are sequences too; a flag is one chunk of its word.
NoData == <<"--no-data">>
NoCreateInfo == <<"--no-create-info">>
IgnoreTable(db, table) == <<"--ignore-table=">> \o db \o <<".">> \o table

\* getMysqlCliArgs() of a TCP connection without password
CliArgs == << <<"-u", "r">>, <<"-h", "l">>, <<"-P", "3">> >>

\* args of phase 1:  [...getMysqlCliArgs(), '--no-data', dbName]
StructureArgs(db) == CliArgs \o <<NoData, db>>

\* Phase 2 arguments without the --ignore-table words.
DataArgsWithoutIgnores(db, E) == CliArgs \o <<NoCreateInfo, db>>

\* args of phase 2:  '--no-create-info', one --ignore-table per entry, dbName
DataArgs(db, E) ==
    CliArgs \o <<NoCreateInfo>> \o [k \in 1..Len(E) |-> IgnoreTable(db, E[k])] \o <<db>>

\* What mysqldump writes to its standard output, as units of text: a header,
\* then per table (in name order) its definition and its rows.  A table named
\* by an --ignore-table=<db>.<table> word is skipped altogether; --no-data
\* leaves out rows, --no-create-info leaves out definitions.
Header == [kind |-> "header", table |-> <<>>]
CreateTable(t) == [kind |-> "create", table |-> t]
InsertInto(t) == [kind |-> "insert", table |-> t]
AllTables == {TableK, TableS, TableU}
TableOrder == <<TableK, TableS, TableU>>

Has(args, word) == \E k \in 1..Len(args) : args[k] = word

RECURSIVE DumpTables(_, _, _)
DumpTables(order, args, T) ==
    IF order = <<>> THEN <<>>
    ELSE LET t == Head(order)
             db == args[Len(args)]
             skip == t \notin T \/ Has(args, IgnoreTable(db, t))
             ddl == IF skip \/ Has(args, NoCreateInfo) THEN <<>> ELSE <<CreateTable(t)>>
             rows == IF skip \/ Has(args, NoData) THEN <<>> ELSE <<InsertInto(t)>>
         IN  ddl \o rows \o DumpTables(Tail(order), args, T)

Mysqldump(args, T) == <<Header>> \o DumpTables(TableOrder, args, T)

\* exportSlimSql is called with (tempDbName, slimPath, excludeTables, cb).
dbName == tempDbName

\* A file already at the output path when the call starts.
OldSlim == <<[kind |-> "old", table |-> <<>>]>>

\* handler suspended in  await exportSlimSql(...)  of its first item
OrchAwaitingExport ==
    /\ files = <<FileA>>
    /\ restoreConfig = NoRestoreConfig
    /\ engine = [d \in DbNames |-> IF d = TempDbName(FileA) THEN ImportedDb(FileA) ELSE NoDb]
    /\ disk = [f \in SlimPaths |-> NoFile]
    /\ pc = "export"
    /\ i = 0
    /\ configContent \in ConfigContents
    /\ configRead = "OK"
    /\ excludeTables = excluded
    /\ results = <<>>
    /\ error = ""
    /\ targetDbName = <<>>
    /\ restoreInfo = Null
    /\ stream = "ended"
    /\ events = <<>>
    /\ ret = NoReturn
    /\ calls = <<>>
    /\ thrown = <<>>
    /\ faults = 0
    /\ connectionConfig = SetMySQLConfig(DefaultSettings)
    /\ fileSize = 0
    /\ bytesProcessed = 0
    /\ now = Epoch
    /\ lastProgressUpdate = 0
    /\ lastPercentage = 0
    /\ updates = <<>>
    /\ rich = "none"
    /\ reported = <<>>
    /\ FrontIdle

SlimInit ==
    /\ spc = "start"
    /\ tables \in SUBSET AllTables
    /\ excluded \in SeqsUpTo(AllTables, MaxExclude)
    /\ prior \in {Absent, OldSlim}
    /\ outFile = prior
    /\ args1 = <<>>
    /\ args2 = <<>>
    /\ out1 = <<>>
    /\ out2 = <<>>
    /\ sent1 = <<>>
    /\ sent2 = <<>>
    /\ wbuf1 = <<>>
    /\ wbuf2 = <<>>
    /\ structureFile = Absent
    /\ dataFile = Absent
    /\ rpos = 0
    /\ serr = ""

\* phase 1: spawn('mysqldump', args); createWriteStream(structureFile)
SpawnStructure ==
    /\ spc = "start"
    /\ args1' = StructureArgs(dbName)
    /\ out1' = Mysqldump(args1', tables)
    /\ structureFile' = <<>>
    /\ spc' = "phase1"
    /\ UNCHANGED <<tables, excluded, args2, out2, sent1, sent2, wbuf1, wbuf2, dataFile,
                   rpos, outFile, prior, serr>>
    /\ UNCHANGED <<orchVars, progVars, frontVars>>

\* mysqldump.stdout 'data': the chunk is handed to the file's write stream
StructureStdout ==
    /\ spc = "phase1"
    /\ out1 # <<>>
    /\ sent1' = Append(sent1, Head(out1))
    /\ wbuf1' = Append(wbuf1, Head(out1))
    /\ out1' = Tail(out1)
    /\ UNCHANGED <<spc, tables, excluded, args1, args2, out2, sent2, wbuf2, structureFile,
                   dataFile, rpos, outFile, prior, serr>>
    /\ UNCHANGED <<orchVars, progVars, frontVars>>

\* the write stream of the structure file completes one buffered write
\* (into the open descriptor; nothing is visible once the file is unlinked)
FlushStructure ==
    /\ wbuf1 # <<>>
    /\ structureFile' = IF structureFile = Absent THEN Absent
                        ELSE Append(structureFile, Head(wbuf1))
    /\ wbuf1' = Tail(wbuf1)
    /\ UNCHANGED <<spc, tables, excluded, args1, args2, out1, out2, sent1, sent2, wbuf2,
                   dataFile, rpos, outFile, prior, serr>>
    /\ UNCHANGED <<orchVars, progVars, frontVars>>

\* mysqldump 'close' of phase 1: code 0 once all output was emitted, or a
\* non-zero code at any point.  The promise settles here, whatever the write
\* stream of the structure file still holds.
StructureClose ==
    /\ spc = "phase1"
    /\ \E code \in {0, 2} :
         /\ code = 0 => out1 = <<>>
         /\ IF code = 0
            THEN spc' = "spawn2" /\ UNCHANGED serr
            ELSE spc' = "catch" /\ serr' = ErrStructure
    /\ UNCHANGED <<tables, excluded, args1, args2, out1, out2, sent1, sent2, wbuf1, wbuf2,
                   structureFile, dataFile, rpos, outFile, prior>>
    /\ UNCHANGED <<orchVars, progVars, frontVars>>

\* phase 2: spawn('mysqldump', args); createWriteStream(dataFile)
SpawnData ==
    /\ spc = "spawn2"
    /\ args2' = DataArgs(dbName, excluded)
    /\ out2' = Mysqldump(args2', tables)
    /\ dataFile' = <<>>
    /\ spc' = "phase2"
    /\ UNCHANGED <<tables, excluded, args1, out1, sent1, sent2, wbuf1, wbuf2, structureFile,
                   rpos, outFile, prior, serr>>
    /\ UNCHANGED <<orchVars, progVars, frontVars>>

DataStdout ==
    /\ spc = "phase2"
    /\ out2 # <<>>
    /\ sent2' = Append(sent2, Head(out2))
    /\ wbuf2' = Append(wbuf2, Head(out2))
    /\ out2' = Tail(out2)
    /\ UNCHANGED <<spc, tables, excluded, args1, args2, out1, sent1, wbuf1, structureFile,
                   dataFile, rpos, outFile, prior, serr>>
    /\ UNCHANGED <<orchVars, progVars, frontVars>>

FlushData ==
    /\ wbuf2 # <<>>
    /\ dataFile' = IF dataFile = Absent THEN Absent ELSE Append(dataFile, Head(wbuf2))
    /\ wbuf2' = Tail(wbuf2)
    /\ UNCHANGED <<spc, tables, excluded, args1, args2, out1, out2, sent1, sent2, wbuf1,
                   structureFile, rpos, outFile, prior, serr>>
    /\ UNCHANGED <<orchVars, progVars, frontVars>>

\* mysqldump 'close' of phase 2
DataClose ==
    /\ spc = "phase2"
    /\ \E code \in {0, 2} :
         /\ code = 0 => out2 = <<>>
         /\ IF code = 0
            THEN spc' = "phase3" /\ UNCHANGED serr
            ELSE spc' = "catch" /\ serr' = ErrData
    /\ UNCHANGED <<tables, excluded, args1, args2, out1, out2, sent1, sent2, wbuf1, wbuf2,
                   structureFile, dataFile, rpos, outFile, prior>>
    /\ UNCHANGED <<orchVars, progVars, frontVars>>

\* phase 3: createWriteStream(outFile) creates or truncates the output path,
\* or fails to open it (output 'error'); structure.pipe(output, {end: false})
OpenOutput ==
    /\ spc = "phase3"
    /\ \E opened \in BOOLEAN :
         IF opened
         THEN outFile' = <<>> /\ spc' = "pipe_structure" /\ UNCHANGED serr
         ELSE spc' = "catch" /\ serr' = ErrConcat /\ UNCHANGED outFile
    /\ rpos' = 0
    /\ UNCHANGED <<tables, excluded, args1, args2, out1, out2, sent1, sent2, wbuf1, wbuf2,
                   structureFile, dataFile, prior>>
    /\ UNCHANGED <<orchVars, progVars, frontVars>>

\* the read stream of the structure file delivers what the file holds at its
\* read position; the pipe writes it to output
PipeStructure ==
    /\ spc = "pipe_structure"
    /\ rpos < Len(structureFile)
    /\ outFile' = Append(outFile, structureFile[rpos + 1])
    /\ rpos' = rpos + 1
    /\ UNCHANGED <<spc, tables, excluded, args1, args2, out1, out2, sent1, sent2, wbuf1,
                   wbuf2, structureFile, dataFile, prior, serr>>
    /\ UNCHANGED <<orchVars, progVars, frontVars>>

\* structure 'end': a read at the end of what the file holds;  data.pipe(output)
StructureEnd ==
    /\ spc = "pipe_structure"
    /\ rpos = Len(structureFile)
    /\ spc' = "pipe_data"
    /\ rpos' = 0
    /\ UNCHANGED <<tables, excluded, args1, args2, out1, out2, sent1, sent2, wbuf1, wbuf2,
                   structureFile, dataFile, outFile, prior, serr>>
    /\ UNCHANGED <<orchVars, progVars, frontVars>>

PipeData ==
    /\ spc = "pipe_data"
    /\ rpos < Len(dataFile)
    /\ outFile' = Append(outFile, dataFile[rpos + 1])
    /\ rpos' = rpos + 1
    /\ UNCHANGED <<spc, tables, excluded, args1, args2, out1, out2, sent1, sent2, wbuf1,
                   wbuf2, structureFile, dataFile, prior, serr>>
    /\ UNCHANGED <<orchVars, progVars, frontVars>>

\* data 'end': output.end()
DataEnd ==
    /\ spc = "pipe_data"
    /\ rpos = Len(dataFile)
    /\ spc' = "ending"
    /\ UNCHANGED <<tables, excluded, args1, args2, out1, out2, sent1, sent2, wbuf1, wbuf2,
                   structureFile, dataFile, rpos, outFile, prior, serr>>
    /\ UNCHANGED <<orchVars, progVars, frontVars>>

\* output 'finish': resolve
OutputFinish ==
    /\ spc = "ending"
    /\ spc' = "unlink"
    /\ UNCHANGED <<tables, excluded, args1, args2, out1, out2, sent1, sent2, wbuf1, wbuf2,
                   structureFile, dataFile, rpos, outFile, prior, serr>>
    /\ UNCHANGED <<orchVars, progVars, frontVars>>

\* 'error' of output, structure or data while the files are piped: reject
StreamFailure ==
    /\ spc \in {"pipe_structure", "pipe_data", "ending"}
    /\ spc' = "catch"
    /\ serr' = ErrConcat
    /\ UNCHANGED <<tables, excluded, args1, args2, out1, out2, sent1, sent2, wbuf1, wbuf2,
                   structureFile, dataFile, rpos, outFile, prior>>
    /\ UNCHANGED <<orchVars, progVars, frontVars>>

\* The two temporary files beside the output file.
StructureTemp == [dir |-> "slim", name |-> <<"._temp_structure_">>]
DataTemp == [dir |-> "slim", name |-> <<"._temp_data_">>]
ErrUnlink == "unlink failed"

\* await fs.unlink(structureFile).catch(() => {}); the same for dataFile.
\* An unlink fails when the file was never created, and can fail otherwise
\* (EPERM, EBUSY), in which case the file stays; both are attempted and
\* neither failure goes further than its own catch.
UnlinkBoth(gone1, gone2) ==
    /\ gone1 => structureFile # Absent
    /\ gone2 => dataFile # Absent
    /\ structureFile' = IF gone1 THEN Absent ELSE structureFile
    /\ dataFile' = IF gone2 THEN Absent ELSE dataFile
    /\ calls' = calls \o <<Call("unlink", <<>>, StructureTemp, "exportSlim"),
                           Call("unlink", <<>>, DataTemp, "exportSlim")>>
    /\ thrown' = thrown \o (IF gone1 THEN <<>> ELSE <<Raised(ErrUnlink, "structure")>>)
                        \o (IF gone2 THEN <<>> ELSE <<Raised(ErrUnlink, "data")>>)

\* The state of the handler that exportSlimSql leaves alone while it unlinks.
unlinkIdle ==
    <<files, restoreConfig, pc, i, configContent, configRead, excludeTables, results, error,
      targetDbName, restoreInfo, stream, events, ret, engine, faults, disk, connectionConfig>>

\* fs.unlink of both temporary files after the concatenation
UnlinkTemp ==
    /\ spc = "unlink"
    /\ \E gone1, gone2 \in BOOLEAN : UnlinkBoth(gone1, gone2)
    /\ spc' = "resolved"
    /\ UNCHANGED <<tables, excluded, args1, args2, out1, out2, sent1, sent2, wbuf1, wbuf2,
                   rpos, outFile, prior, serr>>
    /\ UNCHANGED <<unlinkIdle, progVars, frontVars>>

\* A catch block in which a failing unlink replaces the error.
CatchUnlinkRethrowsLast ==
    /\ spc = "catch"
    /\ \E gone1, gone2 \in BOOLEAN :
         /\ UnlinkBoth(gone1, gone2)
         /\ serr' = IF gone1 /\ gone2 THEN serr ELSE ErrUnlink
    /\ spc' = "rejected"
    /\ UNCHANGED <<tables, excluded, args1, args2, out1, out2, sent1, sent2, wbuf1, wbuf2,
                   rpos, outFile, prior>>
    /\ UNCHANGED <<unlinkIdle, progVars, frontVars>>

\* catch: fs.unlink of both temporary files, then rethrow
CatchUnlink ==
    /\ spc = "catch"
    /\ \E gone1, gone2 \in BOOLEAN : UnlinkBoth(gone1, gone2)
    /\ spc' = "rejected"
    /\ UNCHANGED <<tables, excluded, args1, args2, out1, out2, sent1, sent2, wbuf1, wbuf2,
                   rpos, outFile, prior, serr>>
    /\ UNCHANGED <<unlinkIdle, progVars, frontVars>>

SlimNext ==
    \/ SpawnStructure \/ StructureStdout \/ FlushStructure \/ StructureClose
    \/ SpawnData \/ DataStdout \/ FlushData \/ DataClose
    \/ OpenOutput \/ PipeStructure \/ StructureEnd \/ PipeData \/ DataEnd
    \/ OutputFinish \/ StreamFailure \/ UnlinkTemp \/ CatchUnlink

----------------------------------------------------------------------------
(* lib/mysql.js: exportSql; snapshot:start; lib/snapshot.js: createSnapshot *)

\* args of exportSql: one --ignore-table per entry of ignoreTables, dbName
ExportArgs(db, ignoreTables) ==
    CliArgs \o [k \in 1..Len(ignoreTables) |-> IgnoreTable(db, ignoreTables[k])] \o <<db>>

\* senderWindow.send(progressChannel, { step, stepProgress })
SnapEvent(step, percentage) == [step |-> step, stepProgress |-> percentage]

\* createSnapshot of the command line, as opposed to snapshot:start.
OnCli == pc \in {"cli_snap_start", "cli_snap_export", "cli_snap_dump", "cli_snap_info"}

\* snapshot:start: throw new Error(`Snapshot failed: ${error.message}`)
\* createSnapshot: spinner.fail('Snapshot creation failed'); throw error
SnapshotReject(message) ==
    IF OnCli
    THEN /\ pc' = "cli_rejected"
         /\ error' = message
         /\ UNCHANGED ret
    ELSE /\ pc' = "rejected"
         /\ error' = message
         /\ ret' = [kind |-> "throw", success |-> FALSE, results |-> <<>>,
                    error |-> <<"Snapshot failed: ", message>>]

\* What the snapshot actions leave alone.
snapIdle ==
    <<files, restoreConfig, i, configContent, configRead, results, targetDbName, restoreInfo,
      stream, calls, thrown, engine, disk>>
slimRest ==
    <<tables, excluded, args2, out2, sent2, wbuf1, wbuf2, structureFile, dataFile, rpos,
      prior, serr>>

\* snapshot:start up to the choice of the export function: ensureMySQLConfig,
\* ensureDirectory, the first event, loadExcludeTables for a slim snapshot
\* (excluded is the list it gives), then
\*   (type === 'slim' && excludeTables.length > 0) ? exportSlimSql : exportSql
SnapshotStart ==
    /\ pc = "snap_start"
    /\ \E config \in StoreGet : connectionConfig' = SetMySQLConfig(config)
    /\ \E outcome \in {"ok", ErrMkdir, "EACCES"} :
         /\ outcome = "EACCES" => snapshotType = "slim"
         /\ Outcome(outcome = "ok", TRUE)
         /\ events' = IF outcome = ErrMkdir THEN events
                      ELSE Append(events, SnapEvent("Exporting database...", 0))
         /\ IF outcome = "ok"
            THEN /\ excludeTables' = IF snapshotType = "slim" THEN excluded ELSE <<>>
                 /\ IF snapshotType = "slim" /\ Len(excludeTables') > 0
                    THEN pc' = "snap_slim" /\ spc' = "start"
                    ELSE pc' = "snap_export" /\ UNCHANGED spc
                 /\ UNCHANGED <<error, ret>>
            ELSE /\ SnapshotReject(outcome)
                 /\ UNCHANGED <<excludeTables, spc>>
    /\ UNCHANGED <<snapIdle, slimRest, args1, out1, sent1, outFile>>
    /\ UNCHANGED <<frontVars, progVars>>

\* createSnapshot up to its export: ensureDirectory, loadExcludeTables for a
\* slim snapshot, then always exportSql(dbName, filepath, excludeTables, ...)
CliCreateSnapshot ==
    /\ pc = "cli_snap_start"
    /\ \E outcome \in {"ok", ErrMkdir, "EACCES"} :
         /\ outcome = "EACCES" => snapshotType = "slim"
         /\ Outcome(outcome = "ok", TRUE)
         /\ IF outcome = "ok"
            THEN /\ excludeTables' = IF snapshotType = "slim" THEN excluded ELSE <<>>
                 /\ pc' = "cli_snap_export"
                 /\ UNCHANGED <<error, ret>>
            ELSE /\ SnapshotReject(outcome)
                 /\ UNCHANGED excludeTables
    /\ UNCHANGED <<snapIdle, slimRest, spc, args1, out1, sent1, outFile, events,
                   connectionConfig>>
    /\ UNCHANGED <<frontVars, progVars>>

\* exportSql: the arguments, spawn('mysqldump', args), createWriteStream(outFile).
\* With connectionConfig null the arguments cannot be built and the promise
\* rejects at once; a server that cannot be reached gives mysqldump nothing
\* to write.
ExportSqlSpawn ==
    /\ pc \in {"snap_export", "cli_snap_export"}
    /\ IF connectionConfig = NotConfigured
       THEN /\ SnapshotReject(ErrNoConfig)
            /\ UNCHANGED <<args1, out1, outFile>>
       ELSE /\ args1' = ExportArgs(dbName, excludeTables)
            /\ out1' = IF Connectable(connectionConfig)
                        THEN Mysqldump(args1', tables) ELSE <<>>
            /\ outFile' = <<>>
            /\ pc' = IF OnCli THEN "cli_snap_dump" ELSE "snap_dump"
            /\ UNCHANGED <<error, ret>>
    /\ UNCHANGED <<snapIdle, slimRest, spc, sent1, excludeTables, events, faults,
                   connectionConfig>>
    /\ UNCHANGED <<frontVars, progVars>>

\* mysqldump.stdout 'data': the pipe writes the chunk to the file, and the
\* callback of snapshot:start (the chunk is far below a megabyte, so the
\* percentage stays 0) sends an event if more than 200 ms have passed.
ExportSqlStdout ==
    /\ pc \in {"snap_dump", "cli_snap_dump"}
    /\ out1 # <<>>
    /\ sent1' = Append(sent1, Head(out1))
    /\ outFile' = Append(outFile, Head(out1))
    /\ out1' = Tail(out1)
    /\ \E late \in BOOLEAN :
         events' = IF late /\ ~OnCli
                   THEN Append(events, SnapEvent("Exporting database...", 0)) ELSE events
    /\ UNCHANGED <<snapIdle, slimRest, spc, pc, args1, excludeTables, error, ret, faults,
                   connectionConfig>>
    /\ UNCHANGED <<frontVars, progVars>>

\* mysqldump 'close': resolve on code 0, reject otherwise; snapshot:start
\* then sends its final event.
ExportSqlClose ==
    /\ pc \in {"snap_dump", "cli_snap_dump"}
    /\ \E ok \in BOOLEAN :
         /\ ok => out1 = <<>>
         /\ EngineOutcome(ok, TRUE)
         /\ IF ok
            THEN /\ pc' = IF OnCli THEN "cli_snap_info" ELSE "snap_info"
                 /\ events' = IF OnCli THEN events ELSE Append(events, SnapEvent("Complete", 100))
                 /\ UNCHANGED <<error, ret>>
            ELSE /\ SnapshotReject("MySQL export failed")
                 /\ UNCHANGED events
    /\ UNCHANGED <<snapIdle, slimRest, spc, args1, out1, sent1, outFile, excludeTables,
                   connectionConfig>>
    /\ UNCHANGED <<frontVars, progVars>>

\* Continuation of snapshot:start after  await exportSlimSql(...)  settled.
SnapshotAfterSlim ==
    /\ pc = "snap_slim"
    /\ spc \in {"resolved", "rejected"}
    /\ IF spc = "resolved"
       THEN /\ pc' = "snap_info"
            /\ events' = Append(events, SnapEvent("Complete", 100))
            /\ UNCHANGED <<error, ret>>
       ELSE /\ SnapshotReject(serr)
            /\ UNCHANGED events
    /\ UNCHANGED <<snapIdle, slimVars, excludeTables, faults, connectionConfig>>
    /\ UNCHANGED <<frontVars, progVars>>

\* fs.stat(filepath), getDatabaseInfo(dbName), then the result is returned
\* or printed.
SnapshotInfo ==
    /\ pc \in {"snap_info", "cli_snap_info"}
    /\ \E ok \in BOOLEAN :
         /\ EngineOutcome(ok, TRUE)
         /\ IF ok
            THEN /\ pc' = IF OnCli THEN "cli_done" ELSE "returned"
                 /\ ret' = IF OnCli THEN ret
                           ELSE [kind |-> "return", success |-> TRUE, results |-> <<>>,
                                 error |-> <<>>]
                 /\ UNCHANGED error
            ELSE SnapshotReject(ErrConnect)
    /\ UNCHANGED <<snapIdle, slimVars, excludeTables, events, connectionConfig>>
    /\ UNCHANGED <<frontVars, progVars>>

SnapshotNext ==
    \/ SnapshotStart \/ CliCreateSnapshot \/ ExportSqlSpawn \/ ExportSqlStdout
    \/ ExportSqlClose \/ SnapshotAfterSlim \/ SnapshotInfo

----------------------------------------------------------------------------
(* Specifications                                                          *)

SlimIdle ==
    /\ spc = "idle"
    /\ tables = {}
    /\ excluded = <<>>
    /\ args1 = <<>>
    /\ args2 = <<>>
    /\ out1 = <<>>
    /\ out2 = <<>>
    /\ sent1 = <<>>
    /\ sent2 = <<>>
    /\ wbuf1 = <<>>
    /\ wbuf2 = <<>>
    /\ structureFile = Absent
    /\ dataFile = Absent
    /\ rpos = 0
    /\ outFile = Absent
    /\ prior = Absent
    /\ serr = ""

\* The handler on batches of empty files: the read streams end without a
\* chunk, so that no callback of an import runs.
Init == OrchInit /\ SlimIdle
Next ==
    \/ Start \/ EnsureDirectory \/ BeginItem \/ Finish
    \/ WsExists \/ WsDrop \/ WsCreate \/ StatFull
    \/ ImportSpawn \/ StreamEnd \/ StreamError \/ ImportExit \/ ImportAbort
    \/ ExportSlim \/ DropWs
    \/ TgtExists \/ TgtDrop \/ TgtCreate \/ StatSlim \/ DbInfo
    \/ PushSuccess \/ CleanupExists \/ CleanupDrop \/ PushFailure
Spec == Init /\ [][Next]_vars

\* The handler on two files of one byte each, for every kind of restore
\* request: none, one that is switched off, and the two that are switched on.
\* The server may also hold a workspace left over by an earlier run and the
\* database the restore is to replace.
LeftoverEngine ==
    [d \in DbNames |-> IF d \in {TempDbName(FileA), <<"a">>} THEN UserDb ELSE NoDb]
RestoreSwitchedOff == [isNull |-> FALSE, enabled |-> FALSE, databaseNames |-> DefaultNames]
RestoreRequests == RestoreConfigs \cup {RestoreSwitchedOff}
RestoreInit ==
    /\ files = <<FileA, FileB>>
    /\ restoreConfig \in RestoreRequests
    /\ engine \in InitialEngines \cup {LeftoverEngine}
    /\ disk = [f \in SlimPaths |-> NoFile]
    /\ pc = "start"
    /\ i = 0
    /\ configContent \in ConfigContents
    /\ configRead = "none"
    /\ excludeTables = <<>>
    /\ results = <<>>
    /\ error = ""
    /\ targetDbName = <<>>
    /\ restoreInfo = Null
    /\ stream = "none"
    /\ events = <<>>
    /\ ret = NoReturn
    /\ calls = <<>>
    /\ thrown = <<>>
    /\ faults = 0
    /\ connectionConfig = NotConfigured
    /\ fileSize = 0
    /\ bytesProcessed = 0
    /\ now = Epoch
    /\ lastProgressUpdate = 0
    /\ lastPercentage = 0
    /\ updates = <<>>
    /\ rich = "plain"
    /\ reported = <<>>
    /\ FrontIdle
    /\ SlimIdle

RestoreSpec == RestoreInit /\ [][OrchNext]_vars

\* Both handlers that prepare a database before importing into it: slim:start
\* as in RestoreSpec, or restore:start called with any database name while the
\* server holds any set of the databases of interest.
RestoreStartInit ==
    /\ files = <<FileA>>
    /\ restoreConfig = NoRestoreConfig
    /\ engine \in [DbNames -> {NoDb, UserDb}]
    /\ disk = [f \in SlimPaths |-> NoFile]
    /\ pc = "rs_start"
    /\ i = 0
    /\ configContent = <<>>
    /\ configRead = "none"
    /\ excludeTables = <<>>
    /\ results = <<>>
    /\ error = ""
    /\ targetDbName \in DbNames
    /\ restoreInfo = Null
    /\ stream = "none"
    /\ events = <<>>
    /\ ret = NoReturn
    /\ calls = <<>>
    /\ thrown = <<>>
    /\ faults = 0
    /\ connectionConfig = NotConfigured
    /\ fileSize = 0
    /\ bytesProcessed = 0
    /\ now = Epoch
    /\ lastProgressUpdate = 0
    /\ lastPercentage = 0
    /\ updates = <<>>
    /\ rich = "plain"
    /\ reported = <<>>
    /\ FrontIdle
    /\ SlimIdle

PrepareInit == RestoreInit \/ RestoreStartInit
PrepareNext == OrchNext \/ RestoreStartNext
PrepareSpec == PrepareInit /\ [][PrepareNext]_vars

\* The handler on one file with a restore requested, fed by a lively
\* environment in one of its byte-driven phases: file sizes from empty to
\* hundreds of megabytes, chunks of several lengths, time passing between them.
\* One call of the run can fail although the environment could serve it.
\* The server holds a leftover workspace and the database to be replaced.
RichPhases == {"import", "export", "restore"}
RestoreToDefault == [isNull |-> FALSE, enabled |-> TRUE, databaseNames |-> DefaultNames]
ProgressInit ==
    /\ files = <<FileA>>
    /\ restoreConfig = RestoreToDefault
    /\ engine = LeftoverEngine
    /\ disk = [f \in SlimPaths |-> NoFile]
    /\ pc = "start"
    /\ i = 0
    /\ configContent \in ConfigContents
    /\ configRead = "none"
    /\ excludeTables = <<>>
    /\ results = <<>>
    /\ error = ""
    /\ targetDbName = <<>>
    /\ restoreInfo = Null
    /\ stream = "none"
    /\ events = <<>>
    /\ ret = NoReturn
    /\ calls = <<>>
    /\ thrown = <<>>
    /\ faults = MaxFaults - 1
    /\ connectionConfig = NotConfigured
    /\ fileSize = 0
    /\ bytesProcessed = 0
    /\ now = Epoch
    /\ lastProgressUpdate = 0
    /\ lastPercentage = 0
    /\ updates = <<>>
    /\ rich \in RichPhases
    /\ reported = <<>>
    /\ FrontIdle
    /\ SlimIdle

ProgressSpec == ProgressInit /\ [][OrchNext]_vars

\* The handler on two files of one byte and an empty server, for every content of the
\* exclusion file of at most MaxLen characters: a comment sign, a space, a
\* line break and a letter.  One call of the run can fail.
MaxLen == 5
ConfigChars == {"#", " ", "\n", "s"}
LoadInit ==
    /\ files = <<FileA, FileB>>
    /\ restoreConfig = NoRestoreConfig
    /\ engine = [d \in DbNames |-> NoDb]
    /\ disk = [f \in SlimPaths |-> NoFile]
    /\ pc = "start"
    /\ i = 0
    /\ configContent \in SeqsUpTo(ConfigChars, MaxLen)
    /\ configRead = "none"
    /\ excludeTables = <<>>
    /\ results = <<>>
    /\ error = ""
    /\ targetDbName = <<>>
    /\ restoreInfo = Null
    /\ stream = "none"
    /\ events = <<>>
    /\ ret = NoReturn
    /\ calls = <<>>
    /\ thrown = <<>>
    /\ faults = MaxFaults - 1
    /\ connectionConfig = NotConfigured
    /\ fileSize = 0
    /\ bytesProcessed = 0
    /\ now = Epoch
    /\ lastProgressUpdate = 0
    /\ lastPercentage = 0
    /\ updates = <<>>
    /\ rich = "plain"
    /\ reported = <<>>
    /\ FrontIdle
    /\ SlimIdle

\* The steps of the handler up to the recording of a successful item.
LoadNext ==
    \/ Start \/ EnsureDirectory \/ BeginItem \/ Finish
    \/ WsExists \/ WsCreate \/ StatFull
    \/ ImportSpawn \/ StreamData \/ StreamEnd \/ ImportExit
    \/ ExportSlim \/ DropWs \/ PushSuccess

LoadSpec == LoadInit /\ [][LoadNext]_vars

\* The handler on batches of distinct paths, two of which have the same base
\* name in different directories; no restore is requested, the files are
\* empty, and one call of the run can fail.
FileC == [dir |-> "archive", name |-> <<"a">> \o DotSql]
Distinct(fs) == \A j, k \in 1..Len(fs) : j # k => fs[j] # fs[k]
ArtifactInit ==
    /\ files \in {fs \in SeqsUpTo(Paths \cup {FileC}, MaxFiles) : Distinct(fs)}
    /\ restoreConfig = NoRestoreConfig
    /\ engine \in InitialEngines
    /\ disk = [f \in SlimPaths |-> NoFile]
    /\ pc = "start"
    /\ i = 0
    /\ configContent \in ConfigContents
    /\ configRead = "none"
    /\ excludeTables = <<>>
    /\ results = <<>>
    /\ error = ""
    /\ targetDbName = <<>>
    /\ restoreInfo = Null
    /\ stream = "none"
    /\ events = <<>>
    /\ ret = NoReturn
    /\ calls = <<>>
    /\ thrown = <<>>
    /\ faults = MaxFaults - 1
    /\ connectionConfig = NotConfigured
    /\ fileSize = 0
    /\ bytesProcessed = 0
    /\ now = Epoch
    /\ lastProgressUpdate = 0
    /\ lastPercentage = 0
    /\ updates = <<>>
    /\ rich = "none"
    /\ reported = <<>>
    /\ FrontIdle
    /\ SlimIdle

\* The steps of the handler when no restore is requested.
ArtifactNext ==
    \/ Start \/ EnsureDirectory \/ BeginItem \/ Finish
    \/ WsExists \/ WsDrop \/ WsCreate \/ StatFull
    \/ ImportSpawn \/ StreamEnd \/ StreamError \/ ImportExit \/ ImportAbort
    \/ ExportSlim \/ DropWs
    \/ PushSuccess \/ CleanupExists \/ CleanupDrop \/ PushFailure

ArtifactSpec == ArtifactInit /\ [][ArtifactNext]_vars

\* The command-line slim flow after the files were selected and ./slim was
\* ensured: one or two distinct files of full/, a process in which
\* setMySQLConfig was called with the defaults or was never called.
CliInit ==
    /\ files \in {fs \in SeqsUpTo(Paths, MaxFiles) : fs # <<>> /\ Distinct(fs)}
    /\ restoreConfig = NoRestoreConfig
    /\ engine \in InitialEngines
    /\ disk = [f \in SlimPaths |-> NoFile]
    /\ pc = "cli_loop"
    /\ i = 0
    /\ configContent = <<>>
    /\ configRead = "OK"
    /\ excludeTables = <<>>
    /\ results = <<>>
    /\ error = ""
    /\ targetDbName = <<>>
    /\ restoreInfo = Null
    /\ stream = "none"
    /\ events = <<>>
    /\ ret = NoReturn
    /\ calls = <<>>
    /\ thrown = <<>>
    /\ faults = 0
    /\ connectionConfig \in {NotConfigured, SetMySQLConfig(DefaultSettings)}
    /\ fileSize = 0
    /\ bytesProcessed = 0
    /\ now = Epoch
    /\ lastProgressUpdate = 0
    /\ lastPercentage = 0
    /\ updates = <<>>
    /\ rich = "none"
    /\ reported = <<>>
    /\ FrontIdle
    /\ SlimIdle

CliSpec == CliInit /\ [][CliNext]_vars

\* The handler on two files selected on the Slim screen with "restore after
\* create" ticked and the default names left as they are: the dumps of the
\* production and of the staging copy of one application, or one of them
\* beside a.sql.  The server holds nothing, a workspace left over, or the
\* development database that the first restore is to replace.
FileProd == [dir |-> "full", name |-> <<"a", "_", "p", "r", "o", "d">> \o DotSql]
FileSd == [dir |-> "full", name |-> <<"a", "_", "s", "d">> \o DotSql]
Selections == {<<FileProd, FileSd>>, <<FileSd, FileProd>>, <<FileA, FileProd>>}
SelectedDbs(fs) ==
    {TempDbName(fs[k]) : k \in 1..Len(fs)} \cup {GetDefaultDbName(fs[k].name) : k \in 1..Len(fs)}
DefaultsInit ==
    /\ files \in Selections
    /\ restoreConfig = DefaultRequest(files)
    /\ engine \in {eng \in [SelectedDbs(files) -> {NoDb, UserDb}] :
                      Existing(eng) \in {{}, {TempDbName(files[1])},
                                         {GetDefaultDbName(files[1].name)}}}
    /\ disk = [f \in {SlimPath(files[k]) : k \in 1..Len(files)} |-> NoFile]
    /\ pc = "start"
    /\ i = 0
    /\ configContent \in ConfigContents
    /\ configRead = "none"
    /\ excludeTables = <<>>
    /\ results = <<>>
    /\ error = ""
    /\ targetDbName = <<>>
    /\ restoreInfo = Null
    /\ stream = "none"
    /\ events = <<>>
    /\ ret = NoReturn
    /\ calls = <<>>
    /\ thrown = <<>>
    /\ faults = 0
    /\ connectionConfig = NotConfigured
    /\ fileSize = 0
    /\ bytesProcessed = 0
    /\ now = Epoch
    /\ lastProgressUpdate = 0
    /\ lastPercentage = 0
    /\ updates = <<>>
    /\ rich = "plain"
    /\ reported = <<>>
    /\ FrontIdle
    /\ SlimIdle

DefaultsSpec == DefaultsInit /\ [][OrchNext]_vars

\* Every export that applies the exclusion list: exportSlimSql awaited by
\* slim:start, and a snapshot of either type asked from snapshot:start or
\* from the command line (there with or without connection parameters set).
\* The database holds any of three tables and the list names up to
\* MaxExclude of them.
ExportInit ==
    /\ files = <<FileA>>
    /\ restoreConfig = NoRestoreConfig
    /\ engine = [d \in DbNames |-> IF d = TempDbName(FileA) THEN ImportedDb(FileA) ELSE NoDb]
    /\ disk = [f \in SlimPaths |-> NoFile]
    /\ i = 0
    /\ configContent = <<>>
    /\ configRead = "OK"
    /\ tables \in SUBSET AllTables
    /\ excluded \in SeqsUpTo(AllTables, MaxExclude)
    /\ \/ /\ pc = "export"
          /\ spc = "start"
          /\ snapshotType = "none"
          /\ excludeTables = excluded
          /\ connectionConfig = SetMySQLConfig(DefaultSettings)
       \/ /\ pc = "snap_start"
          /\ spc = "idle"
          /\ snapshotType \in {"full", "slim"}
          /\ excludeTables = <<>>
          /\ connectionConfig = NotConfigured
       \/ /\ pc = "cli_snap_start"
          /\ spc = "idle"
          /\ snapshotType \in {"full", "slim"}
          /\ excludeTables = <<>>
          /\ connectionConfig \in {NotConfigured, SetMySQLConfig(DefaultSettings)}
    /\ results = <<>>
    /\ error = ""
    /\ targetDbName = <<>>
    /\ restoreInfo = Null
    /\ stream = "ended"
    /\ events = <<>>
    /\ ret = NoReturn
    /\ calls = <<>>
    /\ thrown = <<>>
    /\ faults = 0
    /\ fileSize = 0
    /\ bytesProcessed = 0
    /\ now = Epoch
    /\ lastProgressUpdate = 0
    /\ lastPercentage = 0
    /\ updates = <<>>
    /\ rich = "none"
    /\ reported = <<>>
    /\ store = Unread
    /\ mysqlConfig = Unread
    /\ screen = "closed"
    /\ tested = NotTested
    /\ SideIdle
    /\ prior = Absent
    /\ outFile = Absent
    /\ args1 = <<>>
    /\ args2 = <<>>
    /\ out1 = <<>>
    /\ out2 = <<>>
    /\ sent1 = <<>>
    /\ sent2 = <<>>
    /\ wbuf1 = <<>>
    /\ wbuf2 = <<>>
    /\ structureFile = Absent
    /\ dataFile = Absent
    /\ rpos = 0
    /\ serr = ""

ExportNext == SlimNext \/ SnapshotNext
ExportSpec == ExportInit /\ [][ExportNext]_vars

\* The handler on one empty file while the settings screen is in use: the
\* store holds one of StoredSettings and the user opens the screen, edits the
\* form, tests the connection and saves, at any moment of the batch.
ConfigInit ==
    /\ files = <<FileA>>
    /\ restoreConfig = NoRestoreConfig
    /\ engine \in InitialEngines
    /\ disk = [f \in SlimPaths |-> NoFile]
    /\ pc = "start"
    /\ i = 0
    /\ configContent \in ConfigContents
    /\ configRead = "none"
    /\ excludeTables = <<>>
    /\ results = <<>>
    /\ error = ""
    /\ targetDbName = <<>>
    /\ restoreInfo = Null
    /\ stream = "none"
    /\ events = <<>>
    /\ ret = NoReturn
    /\ calls = <<>>
    /\ thrown = <<>>
    /\ faults = MaxFaults - 1
    /\ connectionConfig = NotConfigured
    /\ fileSize = 0
    /\ bytesProcessed = 0
    /\ now = Epoch
    /\ lastProgressUpdate = 0
    /\ lastPercentage = 0
    /\ updates = <<>>
    /\ rich = "none"
    /\ reported = <<>>
    /\ store \in StoredSettings
    /\ mysqlConfig = Unread
    /\ screen = "closed"
    /\ tested = NotTested
    /\ snapshotType = "none"
    /\ SideIdle
    /\ SlimIdle

ConfigNext == ArtifactNext \/ SettingsNext
ConfigSpec == ConfigInit /\ [][ConfigNext]_vars

\* The pipeline run twice on the same input: the handler on a batch that
\* names the file a.sql twice, with an environment that serves every call it
\* is able to serve (no fault), for every kind of restore request, one of
\* them with a target whose name differs from the workspace's name in the
\* character at the place of the underscore.
RestoreToOther ==
    [isNull |-> FALSE, enabled |-> TRUE,
     databaseNames |-> [p \in Paths |-> IF p = FileA THEN OtherDb ELSE <<>>]]
TwiceInit ==
    /\ files = <<FileA, FileA>>
    /\ restoreConfig \in RestoreRequests \cup {RestoreToOther}
    /\ engine \in InitialEngines \cup {LeftoverEngine}
    /\ disk = [f \in SlimPaths |-> NoFile]
    /\ pc = "start"
    /\ i = 0
    /\ configContent \in ConfigContents
    /\ configRead = "none"
    /\ excludeTables = <<>>
    /\ results = <<>>
    /\ error = ""
    /\ targetDbName = <<>>
    /\ restoreInfo = Null
    /\ stream = "none"
    /\ events = <<>>
    /\ ret = NoReturn
    /\ calls = <<>>
    /\ thrown = <<>>
    /\ faults = MaxFaults
    /\ connectionConfig = NotConfigured
    /\ fileSize = 0
    /\ bytesProcessed = 0
    /\ now = Epoch
    /\ lastProgressUpdate = 0
    /\ lastPercentage = 0
    /\ updates = <<>>
    /\ rich = "plain"
    /\ reported = <<>>
    /\ FrontIdle
    /\ SlimIdle

\* The steps of the handler in an environment without faults.
TwiceNext ==
    \/ Start \/ EnsureDirectory \/ BeginItem \/ Finish
    \/ WsExists \/ WsDrop \/ WsCreate \/ StatFull
    \/ ImportSpawn \/ StreamData \/ StreamEnd \/ ImportExit
    \/ ExportSlim \/ DropWs
    \/ TgtExists \/ TgtDrop \/ TgtCreate \/ StatSlim \/ DbInfo
    \/ PushSuccess \/ CleanupExists \/ CleanupDrop \/ PushFailure

TwiceSpec == TwiceInit /\ [][TwiceNext]_vars

\* exportSlimSql called by the handler for its first item
SlimStart == SlimInit /\ OrchAwaitingExport
SlimSpec == SlimStart /\ [][SlimNext]_vars

----------------------------------------------------------------------------
(* Properties of slim:start                                                *)

Terminated == pc \in {"returned", "rejected"}

\* An item has just been recorded: files[i] is that item, and calls / thrown
\* still describe its processing.
Recorded == pc = "loop" /\ i > 0
last == files[i]

ItemThrew == \E k \in 1..Len(thrown) : thrown[k].site = "try"
CleanupFailed == \E k \in 1..Len(thrown) : thrown[k].site = "catch"
CleanupDropped ==
    \E k \in 1..Len(calls) : calls[k].site = "catch" /\ calls[k].op = "drop"

\* a drop or create of the target, or the import of the slim file into it,
\* was issued
RestoreAttempted ==
    \E k \in 1..Len(calls) :
        /\ calls[k].site = "restore"
        /\ calls[k].op \in {"drop", "create", "import"}

\* The steps that are certain to happen once enabled, given that a spawned
\* process exits once its input has been closed: all but mysql ending by
\* itself while its stdin is still open.
Guaranteed ==
    \/ Start \/ EnsureDirectory \/ BeginItem \/ Finish
    \/ WsExists \/ WsDrop \/ WsCreate \/ StatFull
    \/ ImportSpawn \/ StreamData \/ StreamEnd \/ ImportExit
    \/ ExportSlim \/ DropWs
    \/ TgtExists \/ TgtDrop \/ TgtCreate \/ StatSlim \/ DbInfo
    \/ PushSuccess \/ CleanupExists \/ CleanupDrop \/ PushFailure

\* A step of the current item has failed: an awaited call threw, or the read
\* stream of an import emitted 'error'.
StepFailed == ItemThrew \/ stream = "errored"

\* The part of C1 that is about the results recorded so far: the results grow
\* by exactly one entry per processed file, in input order and named after
\* that file; an item whose processing threw is recorded with success=false;
\* the handler rejects only before the first item, and when it returns it
\* returns one result per file.
OneResultPerFile ==
    /\ Len(results) = i
    /\ i <= Len(files)
    /\ \A k \in 1..Len(results) : results[k].fileName = BaseName(files[k])
    /\ Recorded => (results[i].success <=> ~ItemThrew)
    /\ pc = "rejected" => (events = <<>> /\ calls = <<>> /\ results = <<>>)
    /\ pc = "returned" =>
          /\ ret.kind = "return"
          /\ ret.results = results
          /\ Len(ret.results) = Len(files)

\* C1: a batch of N files returns N results in input order, the k-th for the
\* k-th file, and an item that fails at any step yields a result with
\* success=false after which the next file is processed: the results follow
\* the files, and once a step of an item has failed a step that is certain to
\* happen is pending until the handler has returned.
C1_BatchReturnsEveryResult ==
    /\ OneResultPerFile
    /\ (StepFailed /\ ~Terminated) => ENABLED Guaranteed

C3_NoRestoreOnFailure ==
    (Recorded /\ ~results[i].success) => ~RestoreAttempted

\* C4: every started item reaches a result and the batch returns: as long as
\* the handler has neither returned nor thrown, a step that is certain to
\* happen is pending, also after the input file could not be opened or read.
C4_EveryItemTerminates ==
    Terminated \/ ENABLED Guaranteed

\* C8: a failed item's result carries the message of the first error thrown
\* in the item's try block; an error of the cleanup does not replace it, adds
\* no result and does not end the batch.
C8_PrimaryErrorKept ==
    /\ (Recorded /\ ~results[i].success) =>
          /\ thrown # <<>>
          /\ thrown[1].site = "try"
          /\ results[i].error = thrown[1].message
    /\ CleanupFailed =>
          /\ pc \in {"push_fail", "loop", "returned"}
          /\ Len(results) = i
          /\ ret.kind # "throw"

C8_Witness ==
    /\ Recorded
    /\ ~results[i].success
    /\ CleanupFailed
    /\ Len(thrown) = 2
    /\ thrown[1].message # thrown[2].message
    /\ results[i].error = thrown[1].message

\* C9: when the loop has run to completion the handler returns success=true,
\* however many items failed.
C9_BatchSuccessIndependent ==
    pc = "returned" => (ret.kind = "return" /\ ret.success = TRUE)

C9_Witness ==
    /\ pc = "returned"
    /\ Len(ret.results) = 2
    /\ \A k \in 1..Len(ret.results) : ~ret.results[k].success
    /\ ret.success

\* C10: when reading the exclusion file fails with an error other than
\* file-not-found, the handler throws one error and has processed nothing: no
\* progress event, no call to the engine, no item result.
C10_LoadFailureIsFatal ==
    configRead = "EACCES" =>
        /\ pc = "rejected"
        /\ ret.kind = "throw"
        /\ ret.error = <<"Slim dump failed: ", "EACCES">>
        /\ events = <<>>
        /\ calls = <<>>
        /\ results = <<>>
        /\ i = 0

C10_Witness ==
    /\ configRead = "EACCES"
    /\ pc = "rejected"
    /\ ret.kind = "throw"

----------------------------------------------------------------------------
(* Properties of exportSlimSql                                             *)

Resolved == spc = "resolved"
Rejected == spc = "rejected"

Creates(dump) == {t \in AllTables : \E k \in 1..Len(dump) : dump[k] = CreateTable(t)}
Inserts(dump) == {t \in AllTables : \E k \in 1..Len(dump) : dump[k] = InsertInto(t)}
Ignored(args) == {t \in AllTables : Has(args, IgnoreTable(dbName, t))}
Named(E) == {E[k] : k \in 1..Len(E)}

StructurePassDone == spc \notin {"start", "phase1"} /\ serr # ErrStructure
DataPassDone == StructurePassDone /\ spc \notin {"spawn2", "phase2"} /\ serr # ErrData

\* C5: when exportSlimSql resolves, the output file holds every byte the
\* schema-export process wrote to its standard output, immediately followed
\* by every byte the data-export process wrote to its standard output, with
\* nothing missing and nothing interleaved.
C5_OutputIsSchemaThenData ==
    Resolved => outFile = sent1 \o sent2

\* C6: after a failed exportSlimSql the output path is exactly as it was
\* before the call or holds a complete result; it is never left partially
\* written.
C6_NoPartialOutput ==
    Rejected => \/ outFile = prior
                \/ outFile = Mysqldump(StructureArgs(dbName), tables)
                               \o Mysqldump(DataArgs(dbName, excluded), tables)

\* C7: the schema pass ignores no table and exports the definition of every
\* table of the database and no rows; the data pass exports no definition,
\* ignores exactly the tables named in the exclusion list and exports rows
\* exactly for the tables that are not excluded.
C7_PassesExportTheRightTables ==
    /\ StructurePassDone =>
          /\ Ignored(args1) = {}
          /\ Creates(sent1) = tables
          /\ Inserts(sent1) = {}
    /\ DataPassDone =>
          /\ Ignored(args2) = Named(excluded)
          /\ Creates(sent2) = {}
          /\ Inserts(sent2) = tables \ Named(excluded)

\* both passes ran for a database with an excluded table, a kept table, and
\* an exclusion entry naming no table of the database
C7_Witness ==
    /\ DataPassDone
    /\ tables \cap Named(excluded) # {}
    /\ tables \ Named(excluded) # {}
    /\ Named(excluded) \ tables # {}

----------------------------------------------------------------------------
(* Properties of the configuration                                         *)

Configured == connectionConfig # NotConfigured

\* C11: with connection parameters that cannot be used, slim:start fails as
\* a whole before any item is processed: no progress event is sent, no call
\* for an item is issued, no item result is recorded and the handler does not
\* return a result list.
C11_BadConnectionIsFatal ==
    (Configured /\ ~Connectable(connectionConfig)) =>
        /\ events = <<>>
        /\ calls = <<>>
        /\ results = <<>>
        /\ pc # "returned"
-----------------------------------------------------------------------------
(* Progress events                                                         *)

\* The labels of the phases of an item that report a percentage.
PhaseSteps ==
    {"Importing full dump...", "Exporting slim dump...", "Cleaning up...", "Restoring to "}

\* Positions of two events of the same item and phase, in emission order.
SamePhase(a, b) ==
    /\ a < b
    /\ events[a].step \in PhaseSteps
    /\ events[a].step = events[b].step
    /\ events[a].current = events[b].current

\* C12: for each item and each phase label (import, export, cleanup, restore)
\* the percentages of the emitted events never decrease, whatever sequence of
\* byte-counter updates the phase receives.
C12_PercentagesNonDecreasing ==
    \A a, b \in 1..Len(events) :
        SamePhase(a, b) => events[a].stepProgress <= events[b].stepProgress

\* Position of a step label in the order of an item's phases.
PhaseRank(step) ==
    CASE step = "Creating temp database..." -> 0
      [] step = "Importing full dump..." -> 1
      [] step = "Exporting slim dump..." -> 2
      [] step = "Cleaning up..." -> 3
      [] step = "Restoring to " -> 4
      [] OTHER -> 5

\* The events of the item with index k, in emission order.
ItemEvents(k) == SelectSeq(events, LAMBDA e : e.current = k /\ e.step # "Complete")

InPhaseOrder ==
    \A k \in 0..(Len(files) - 1) :
        LET evs == ItemEvents(k)
        IN  \A a, b \in 1..Len(evs) :
                a < b => PhaseRank(evs[a].step) <= PhaseRank(evs[b].step)

\* C13 as stated: the events of an item come in the order import, export,
\* cleanup, optional restore; workspace creation sends no event, so the first
\* event of every item is an import event.
C13_FirstEventIsImport ==
    /\ InPhaseOrder
    /\ \A k \in 0..(Len(files) - 1) :
         LET evs == ItemEvents(k)
         IN  /\ \A a \in 1..Len(evs) : evs[a].step # "Creating temp database..."
             /\ evs # <<>> => evs[1].step = "Importing full dump..."

\* C13 amended: the events of an item come in the order workspace creation,
\* import, export, cleanup, optional restore; the first event of every item is
\* the workspace-creation event with percentage 0, sent before any engine call.
C13_PhaseOrder ==
    /\ InPhaseOrder
    /\ \A k \in 0..(Len(files) - 1) :
         LET evs == ItemEvents(k)
         IN  /\ (k < i \/ (k = i /\ pc \notin {"start", "ensure_dir", "loop", "rejected", "returned"}))
                    <=> evs # <<>>
             /\ evs # <<>> =>
                    /\ evs[1].step = "Creating temp database..."
                    /\ evs[1].stepProgress = 0

\* A recorded item whose events cover all five phases.
C13_Witness ==
    /\ Recorded
    /\ \A r \in 0..4 :
         \E a \in 1..Len(ItemEvents(i - 1)) : PhaseRank(ItemEvents(i - 1)[a].step) = r

\* C14: events are emitted in item order, and every event is an event of the
\* item being processed: no event of an item is emitted before the result of
\* the item before it has been recorded, and none (callbacks of a stream
\* included) once its own result has been recorded, however the 'data' and
\* 'close' callbacks of an import interleave.
C14_EventsOfTheCurrentItem ==
    [][/\ Len(events') >= Len(events)
       /\ SubSeq(events', 1, Len(events)) = events
       /\ \A k \in (Len(events) + 1)..Len(events') :
            /\ events'[k].current = Len(results)
            /\ events'[k].step # "Complete" => Len(results) < Len(files)
       /\ Len(results') > Len(results) => events' = events]_vars

\* The second of two items has sent an event after the first one, whose import
\* callback had sent an event, failed in its import and was recorded.
C14_Witness ==
    /\ i = 1
    /\ \E k \in 1..Len(events) : events[k].current = 1
    /\ \E k \in 1..Len(events) :
         /\ events[k].current = 0
         /\ events[k].step = "Importing full dump..."
         /\ events[k].stepProgress = 100
    /\ ~results[1].success
    /\ results[1].error = ErrImport

\* Position in the log of the last emission before entry k in k's phase: an
\* emitted update, or the explicit 0% event that opens the phase.
Emissions(k) == {j \in 1..(k - 1) : updates[j].step = updates[k].step /\ updates[j].emitted}
LastEmission(k) == CHOOSE j \in Emissions(k) : \A h \in Emissions(k) : h <= j

Abs(n) == IF n < 0 THEN -n ELSE n

\* C15: in every byte-driven phase an update is emitted if its percentage
\* differs by at least one point from the last emitted one, or if more than
\* the time threshold has passed since the last emission, even when the
\* percentage has not changed.
C15_EmitsOnChangeOrTimeout ==
    \A k \in 1..Len(updates) :
        updates[k].kind = "update" =>
            LET prev == updates[LastEmission(k)]
            IN  (\/ Abs(updates[k].percentage - prev.percentage) >= 1
                 \/ updates[k].at - prev.at > Threshold)
                    => updates[k].emitted

\* C16: an update whose percentage equals the last emitted one, arriving no
\* more than the time threshold after the last emission, sends no event; the
\* explicit 0% event that opens a phase counts as an emission.
C16_SilentWhenUnchangedAndRecent ==
    \A k \in 1..Len(updates) :
        updates[k].kind = "update" =>
            LET prev == updates[LastEmission(k)]
            IN  (/\ updates[k].percentage = prev.percentage
                 /\ updates[k].at - prev.at <= Threshold)
                    => ~updates[k].emitted

ImportTypeSteps == {"Importing full dump...", "Restoring to "}

\* The steps of the current item during which its workspace is being created,
\* and those that precede the completion of its cleanup.
CreatingWorkspace == {"ws_exists", "ws_drop", "ws_create"}
BeforeCleanupDone ==
    CreatingWorkspace \cup {"stat_full", "import", "export", "drop_ws"}

HasEvent(k, step, progress) ==
    \E a \in 1..Len(events) :
        /\ events[a].current = k
        /\ events[a].step = step
        /\ events[a].stepProgress = progress

\* C17: every percentage of a phase event lies in 0..100; an export event
\* never exceeds 95; 100 is sent before its phase has completed only by an
\* import-type phase (import, restore): the 100 of workspace creation and of
\* cleanup is sent once the workspace has been created, respectively dropped.
C17_PercentagesBounded ==
    /\ \A a \in 1..Len(events) :
         events[a].step # "Complete" =>
            /\ events[a].stepProgress \in 0..100
            /\ events[a].step = "Exporting slim dump..." => events[a].stepProgress <= 95
    /\ \A k \in 1..Len(updates) :
         /\ updates[k].percentage \in 0..100
         /\ updates[k].percentage > 95 => updates[k].step \in ImportTypeSteps
    /\ pc \in CreatingWorkspace => ~HasEvent(i, "Creating temp database...", 100)
    /\ pc \in BeforeCleanupDone => ~HasEvent(i, "Cleaning up...", 100)

\* The export of more than 95 MiB has sent 95, the import has sent 100, and the
\* restore has sent 100 while its mysql process is still running.
C17_Witness ==
    /\ pc = "restore_import"
    /\ stream = "reading"
    /\ HasEvent(i, "Exporting slim dump...", 95)
    /\ HasEvent(i, "Importing full dump...", 100)
    /\ HasEvent(i, "Restoring to ", 100)

CompleteEvents == SelectSeq(events, LAMBDA e : e.step = "Complete")

\* C18: once the result of the last item has been recorded the handler sends
\* exactly one 'Complete' event, with current = total = the number of files,
\* as the last event of the batch, and then returns the results; for an empty
\* batch it is the only event.  No 'Complete' event is sent before that.
C18_CompleteIsFinal ==
    /\ pc # "returned" => CompleteEvents = <<>>
    /\ (pc = "loop" /\ i = Len(files)) => ENABLED Finish
    /\ pc = "returned" =>
         /\ Len(results) = Len(files)
         /\ Len(CompleteEvents) = 1
         /\ Last(events).step = "Complete"
         /\ Last(events).current = Len(files)
         /\ Last(events).total = Len(files)
         /\ Last(events).currentFile = Null
         /\ ret.kind = "return"
         /\ ret.results = results
         /\ files = <<>> => Len(events) = 1

\* A batch of two files has returned.
C18_Witness ==
    /\ pc = "returned"
    /\ Len(files) = 2
    /\ Len(events) > 1
    /\ Last(events).step = "Complete"

\* An empty batch has returned.
EmptyBatchReturned == pc = "returned" /\ files = <<>> /\ events = <<FinalEvent>>

-----------------------------------------------------------------------------
(* Exclusion list                                                          *)

\* The lines of a content, told by the positions around them: position 0, the
\* positions of the line breaks, and the position after the last character.
Cuts(content) ==
    {0, Len(content) + 1} \cup {k \in 1..Len(content) : content[k] = "\n"}
LineAfter(content, c) ==
    LET next == CHOOSE d \in Cuts(content) :
                    d > c /\ \A e \in Cuts(content) : e > c => d <= e
    IN  SubSeq(content, c + 1, next - 1)

\* A line without the white space around it.
Inked(line) == {k \in 1..Len(line) : ~IsSpace(line[k])}
Stripped(line) ==
    IF Inked(line) = {} THEN <<>>
    ELSE SubSeq(line, CHOOSE a \in Inked(line) : \A b \in Inked(line) : a <= b,
                      CHOOSE a \in Inked(line) : \A b \in Inked(line) : b <= a)

\* The starts of the lines that name a table.
Entries(content) ==
    {c \in Cuts(content) \ {Len(content) + 1} :
        LET line == Stripped(LineAfter(content, c))
        IN  line # <<>> /\ line[1] # "#"}
EntryAt(content, k) ==
    CHOOSE c \in Entries(content) : Cardinality({d \in Entries(content) : d < c}) = k - 1
ExpectedList(content) ==
    [k \in 1..Cardinality(Entries(content)) |-> Stripped(LineAfter(content, EntryAt(content, k)))]

\* C19: the exclusion list is, in file order and with repetitions kept, the
\* trimmed lines of the file that are not empty and do not begin with '#'; a
\* missing file gives the empty list; any other read error is raised.  The
\* list is loaded once, before the first item, and every item of the batch is
\* processed with that same list.
C19_ExcludeListAsWritten ==
    /\ pc = "start" => configRead = "none"
    /\ pc # "start" =>
         /\ configRead = "OK" => excludeTables = ExpectedList(configContent)
         /\ configRead = "ENOENT" => excludeTables = <<>>
         /\ configRead \in {"OK", "ENOENT"} =>
                ret.error # <<"Slim dump failed: ", configRead>>
         /\ configRead \notin {"OK", "ENOENT"} =>
                /\ pc = "rejected"
                /\ ret.kind = "throw"
                /\ ret.error = <<"Slim dump failed: ", configRead>>
                /\ events = <<>>

\* The second item is being exported with a list read from a file that holds
\* a comment and the same name twice.
C19_Witness ==
    /\ pc = "export"
    /\ i = 1
    /\ excludeTables = << <<"s">>, <<"s">> >>
    /\ \E k \in 1..Len(configContent) : configContent[k] = "#"

-----------------------------------------------------------------------------
(* Restore                                                                 *)

\* The request asks for the restore of a file: restore is switched on and a
\* non-empty target name is supplied for the file's path.
Requested(file) ==
    /\ ~restoreConfig.isNull
    /\ restoreConfig.enabled
    /\ restoreConfig.databaseNames[file] # <<>>

\* The item the calls issued so far belong to.
ItemOfCalls == IF pc \in {"loop", "returned"} THEN files[i] ELSE files[i + 1]
RestoreCalls == {k \in 1..Len(calls) : calls[k].site = "restore"}

\* The calls hold the recreation of the target followed, with nothing done to
\* the target in between, by the import of the item's slim file into it.
ImportedIntoFreshTarget(file, target) ==
    \E c, m \in RestoreCalls :
        /\ c < m
        /\ calls[c] = Call("create", target, NoPath, "restore")
        /\ calls[m] = Call("import", target, SlimPath(file), "restore")
        /\ \A k \in (c + 1)..(m - 1) : calls[k].op = "stat"

\* C20: an item is restored if and only if restore is switched on and a
\* non-empty target name is supplied for its path; the restore starts only
\* after the workspace has been dropped, and imports the slim file the item
\* has just produced into the freshly recreated target; the result of a
\* successful item carries the restore summary exactly when the restore was
\* performed, and null otherwise.
C20_RestoreIffRequested ==
    /\ RestoreCalls # {} =>
         LET file == ItemOfCalls
         IN  /\ Requested(file)
             /\ \A k \in RestoreCalls : calls[k].db \in {restoreConfig.databaseNames[file], <<>>}
             /\ \E e, d \in 1..Len(calls) :
                    /\ e < d
                    /\ calls[e] = Call("exportSlim", TempDbName(file), SlimPath(file), "try")
                    /\ calls[d] = Call("drop", TempDbName(file), NoPath, "try")
                    /\ \A k \in RestoreCalls : d < k
    /\ pc = "tgt_exists" =>
         /\ TempDbName(cur) \notin Existing(engine)
         /\ disk[slimPath] = SlimFile(cur)
    /\ (Recorded /\ results[i].success) =>
         LET target == restoreConfig.databaseNames[last]
         IN  /\ Requested(last) <=> RestoreCalls # {}
             /\ results[i].restored = IF Requested(last) THEN target ELSE Null
             /\ Requested(last) =>
                    /\ ImportedIntoFreshTarget(last, target)
                    /\ engine[target] = ImportedDb(SlimPath(last))
                    /\ disk[SlimPath(last)] = SlimFile(last)

\* Of two successful items of a request with restore switched on, the first
\* was restored into the target named for it and the second, for which no
\* name was supplied, was not.
C20_Witness ==
    /\ pc = "loop"
    /\ i = 2
    /\ restoreConfig.enabled
    /\ results[1].success /\ results[1].restored = <<"a">>
    /\ results[2].success /\ results[2].restored = Null
-----------------------------------------------------------------------------
(* Artifacts                                                               *)

\* C21: every successful item of the batch has its own slim file
\* <base>_slim.sql in the output directory, holding the slim dump of that
\* item's input, from the moment its result is recorded to the end of the
\* batch: no later item, successful or failed, overwrites, modifies or
\* deletes it.
C21_OwnSlimFile ==
    \A k \in 1..Len(results) :
        results[k].success =>
            /\ results[k].slimPath = SlimPath(files[k])
            /\ disk[results[k].slimPath] = SlimFile(files[k])
            /\ \A j \in 1..Len(results) :
                  (j # k /\ results[j].success) => results[j].slimPath # results[k].slimPath

-----------------------------------------------------------------------------
(* Connection settings                                                     *)

\* C22: saving the connection settings is a round trip: once
\* settings:saveMySQLConfig(c) has completed, settings:getMySQLConfig gives c,
\* and the mysql:testConnection the screen issues right after it connects
\* with c and not with what the store held before.
C22_SaveIsRoundTrip ==
    /\ screen \in {"test_saved", "save_saved"} => StoreGet = {mysqlConfig}
    /\ tested.done => tested.with = SetMySQLConfig(tested.form)

\* C24: all invocations of one batch run are rendered from the parameter set
\* resolved at the start of the run: from the first item to the return of
\* the handler no other handler changes the parameters that the remaining
\* invocations of the batch are rendered from.
C24_BatchKeepsItsParameters ==
    [][pc \notin {"start", "returned", "rejected"} => connectionConfig' = connectionConfig]_vars

-----------------------------------------------------------------------------
(* Sequential processing                                                   *)

\* A call whose promise is pending across steps: the mysql process of an
\* import.  Every other external call is issued and awaited in one step.
InFlight == stream # "none"

\* A call of the item that processes the given file.
CallOf(c, file) ==
    /\ c.db \in {<<>>, TempDbName(file), RestoreTarget(restoreConfig, file)}
    /\ c.file \in {NoPath, file, SlimPath(file)}

EngineOps == {"exists", "drop", "create", "import", "exportSlim", "dbinfo"}
NewCalls == SubSeq(calls', Len(calls) + 1, Len(calls'))

\* C23: the items of a batch are processed one after the other and at most
\* one external call is in flight at any time: a call is issued only when no
\* call is pending, at most one engine or child-process call per step; every
\* call belongs to the item being processed, whose first operation is issued
\* only once the results of all items before it have been recorded; and an
\* item is recorded only when none of its calls is pending.
C23_OneItemOneCallAtATime ==
    /\ [](/\ Len(results) = i
          /\ InFlight => (pc \in {"import", "restore_import"} /\ Last(calls).op = "import")
          /\ \A k \in 1..Len(calls) : CallOf(calls[k], ItemOfCalls))
    /\ [][/\ calls' # calls =>
                /\ ~InFlight
                /\ \/ calls' = <<>> /\ pc = "loop" /\ Len(results) = i
                   \/ /\ Len(calls') > Len(calls)
                      /\ SubSeq(calls', 1, Len(calls)) = calls
                      /\ Len(SelectSeq(NewCalls, LAMBDA c : c.op \in EngineOps)) <= 1
                      /\ Len(results) = i /\ i < Len(files)
                      /\ \A k \in 1..Len(NewCalls) : CallOf(NewCalls[k], files[i + 1])
          /\ results' # results =>
                /\ ~InFlight
                /\ stream' = "none"
                /\ Len(results') = Len(results) + 1
                /\ i' = i + 1]_vars

\* The import of the second item is in flight; the first item is recorded.
C23_Witness ==
    /\ i = 1
    /\ Len(results) = 1
    /\ pc = "import"
    /\ InFlight
    /\ Last(calls) = Call("import", TempDbName(files[2]), files[2], "try")

-----------------------------------------------------------------------------
(* Idempotence                                                             *)

\* What a successful run on a file leaves behind: the slim file at the
\* file's slim path, no workspace (unless the restore target has the
\* workspace's name), and the slim file imported into the target, if any.
LeftBySuccess(file) ==
    LET ws == TempDbName(file)
        target == RestoreTarget(restoreConfig, file)
    IN  /\ disk[SlimPath(file)] = SlimFile(file)
        /\ engine[ws] = IF target = ws THEN ImportedDb(SlimPath(file)) ELSE NoDb
        /\ target # <<>> => engine[target] = ImportedDb(SlimPath(file))

\* The databases a run on the file does not work on.
Bystanders(file) == DbNames \ {TempDbName(file), RestoreTarget(restoreConfig, file)}

\* C25: with an environment that behaves the same both times, a second run
\* on the same input gives the outcome of the first: when the first run has
\* succeeded no step of the second fails, so that the second succeeds too;
\* each successful run leaves the same slim file at the same path, no
\* workspace and the same content in the target; and no run touches any other
\* database, so that the engine holds the same databases after both runs.
C25_SecondRunRepeatsTheFirst ==
    /\ [](/\ (i >= 1 /\ results[1].success /\ i < Len(files)) => ~ItemThrew
          /\ (Recorded /\ results[i].success) => LeftBySuccess(last)
          /\ (i = 2 /\ results[1].success) =>
                /\ results[2].success
                /\ results[2].slimPath = results[1].slimPath
                /\ results[2].restored = results[1].restored)
    /\ [][\A d \in Bystanders(FileA) : engine'[d] = engine[d]]_vars

(* C30: databaseExists answers true exactly when the server holds a        *)
(* database of exactly the queried name, whatever the name and whatever    *)
(* the server holds.  Checked where restore:start has just asked.          *)
C30_ExistsIffPresent ==
    (pc \in {"rs_drop", "rs_create"} /\ Last(calls).op = "exists")
        => (pc = "rs_drop" <=> targetDbName \in Existing(engine))

(* C29: at each of the three sites that prepare a clean database (the      *)
(* workspace and the restore target of slim:start, the database of         *)
(* restore:start) a drop is issued only directly after an existence check  *)
(* that answered true; the step that follows a negative check or a         *)
(* successful drop issues the create; and an import is issued only into a  *)
(* database that the preceding create has just made, when nothing has      *)
(* failed before: after a failing check, drop or create no import follows. *)
PrepareSite == {"try", "restore", "restore:start"}
PreparedDb == IF pc \in {"ws_drop", "ws_create"} THEN tempDbName ELSE targetDbName
PreparedAt ==
    IF pc \in {"ws_drop", "ws_create"} THEN "try"
    ELSE IF pc \in {"tgt_drop", "tgt_create"} THEN "restore" ELSE "restore:start"
Issued(c) == calls' = Append(calls, c)
IssuesImport == Len(calls') = Len(calls) + 1 /\ Last(calls').op = "import"
\* The call before the import, an fs.stat of the file to import aside.
CallBeforeImport ==
    IF Last(calls).op = "stat" THEN calls[Len(calls) - 1] ELSE Last(calls)
C29_RecreateBeforeImport ==
    /\ [](pc \in {"ws_drop", "tgt_drop", "rs_drop"} =>
            /\ Last(calls) = Call("exists", PreparedDb, NoPath, PreparedAt)
            /\ DatabaseExists(PreparedDb, engine))
    /\ [](pc \in {"ws_create", "tgt_create", "rs_create"} =>
            \/ /\ Last(calls) = Call("exists", PreparedDb, NoPath, PreparedAt)
               /\ ~DatabaseExists(PreparedDb, engine)
            \/ /\ Len(calls) > 1
               /\ Last(calls) = Call("drop", PreparedDb, NoPath, PreparedAt)
               /\ calls[Len(calls) - 1] = Call("exists", PreparedDb, NoPath, PreparedAt)
               /\ PreparedDb \notin Existing(engine))
    /\ [][/\ (pc \in {"ws_create", "tgt_create", "rs_create"} =>
                  Issued(Call("create", PreparedDb, NoPath, PreparedAt)))
           /\ (IssuesImport =>
                  /\ Last(calls').site \in PrepareSite
                  /\ thrown = <<>>
                  /\ CallBeforeImport =
                         Call("create", Last(calls').db, NoPath, Last(calls').site)
                  /\ engine[Last(calls').db] = EmptyDb)]_vars

\* Both sites of slim:start found their database, dropped and created it, and
\* the import into the target is under way.
C29_Witness ==
    /\ pc = "restore_import"
    /\ stream = "reading"
    /\ Call("drop", tempDbName, NoPath, "try") = calls[2]
    /\ \E k \in 2..Len(calls) :
         /\ calls[k] = Call("drop", targetDbName, NoPath, "restore")
         /\ calls[k + 1] = Call("create", targetDbName, NoPath, "restore")
    /\ Last(calls) = Call("import", targetDbName, slimPath, "restore")

-----------------------------------------------------------------------------
(* Order of the external operations                                        *)

\* The operations of one item outside its catch block, in the order issued.
IsProper(c) == c.site # "catch"
ProperCalls == SelectSeq(calls, IsProper)

\* recreate(name) at a site: the check, the drop if there was one, the create.
Recreate(db, site, dropped) ==
    <<Call("exists", db, NoPath, site)>>
        \o (IF dropped THEN <<Call("drop", db, NoPath, site)>> ELSE <<>>)
        \o <<Call("create", db, NoPath, site)>>

\* INIT -> WORKSPACE_READY -> IMPORTED -> COMPOSED -> CLEANED
SlimSteps(file, dropped) ==
    Recreate(TempDbName(file), "try", dropped)
        \o <<Call("stat", <<>>, file, "try"),
             Call("import", TempDbName(file), file, "try"),
             Call("exportSlim", TempDbName(file), SlimPath(file), "try"),
             Call("drop", TempDbName(file), NoPath, "try")>>

\* RESTORING -> RESTORED
RestoreSteps(file, target, dropped) ==
    Recreate(target, "restore", dropped)
        \o <<Call("stat", <<>>, SlimPath(file), "restore"),
             Call("import", target, SlimPath(file), "restore"),
             Call("dbinfo", target, NoPath, "restore")>>

\* DONE: the sizes of both files for the result.
DoneSteps(file) ==
    <<Call("stat", <<>>, file, "try"), Call("stat", <<>>, SlimPath(file), "try")>>

\* The complete runs of one item: with or without a workspace and a target
\* found and dropped, and with the restore steps only when restore applies.
ItemRuns(file) ==
    LET target == RestoreTarget(restoreConfig, file)
    IN  {SlimSteps(file, w)
            \o (IF target # <<>> THEN RestoreSteps(file, target, t) ELSE <<>>)
            \o DoneSteps(file) : w \in BOOLEAN, t \in BOOLEAN}

IsPrefix(s, t) == Len(s) <= Len(t) /\ s = SubSeq(t, 1, Len(s))

\* The item that the calls in the log belong to.
LoggedItem == IF pc \in {"loop", "returned", "rejected"} THEN files[i] ELSE cur

\* C28: the operations of every item are issued in the order recreate the
\* workspace, import the full dump, compose the slim dump, drop the
\* workspace, then, only when restore applies, recreate the target, import
\* the slim file and query the target; once a step of the item has failed no
\* further step is issued, and an item recorded as a success has issued
\* every step.
C28_StepsInOrder ==
    /\ [](calls # <<>> => \E run \in ItemRuns(LoggedItem) : IsPrefix(ProperCalls, run))
    /\ [](\A k \in 1..Len(results) :
            (k = i /\ pc = "loop" /\ results[k].success) => ProperCalls \in ItemRuns(files[k]))
    /\ [][ItemThrew => (ProperCalls' = ProperCalls \/ calls' = <<>>)]_vars

\* An item was recorded as a success after the longest run: workspace and
\* target both found, dropped and created again.
C28_Witness ==
    /\ pc = "loop"
    /\ i = 1
    /\ results[1].success
    /\ RestoreTarget(restoreConfig, files[1]) # <<>>
    /\ ProperCalls = SlimSteps(files[1], TRUE)
                        \o RestoreSteps(files[1], RestoreTarget(restoreConfig, files[1]), TRUE)
                        \o DoneSteps(files[1])

-----------------------------------------------------------------------------
(* The command-line flows                                                  *)

\* C26: when createSlimDump fails for one of the selected files, its
\* workspace is cleaned up and the flow goes on with the remaining files: the
\* flow ends, normally or not, only after every selected file had its turn,
\* and it does not end on a failure before the cleanup was attempted.
C26_BatchGoesOn ==
    /\ pc \in {"cli_done", "cli_rejected"} => Len(results) = Len(files)
    /\ pc \in {"cli_throw", "cli_rejected"} =>
          \E k \in 1..Len(calls) : calls[k] = Call("exists", tempDbName, NoPath, "catch")

\* The tables named by the exclusion list that the export was given.
Excluded == Named(excludeTables)
SlimExported == spc = "resolved" /\ pc \in {"export", "snap_slim", "snap_info"}
SqlExported == spc = "idle" /\ pc \in {"snap_info", "cli_snap_info"}

\* C27: every export that applies the exclusion list (exportSlimSql for the
\* slim batch, a slim snapshot of snapshot:start, a slim snapshot of the
\* command line) omits only the rows of the excluded tables: what its
\* mysqldump processes wrote holds the definition of every table of the
\* database, the excluded ones included, and the rows of exactly the tables
\* that are not excluded.
C27_ExcludedTablesKeptEmpty ==
    /\ SlimExported =>
          /\ Creates(sent1 \o sent2) = tables
          /\ Inserts(sent1 \o sent2) = tables \ Excluded
    /\ SqlExported =>
          /\ Creates(sent1) = tables
          /\ Inserts(sent1) = tables \ Excluded

-----------------------------------------------------------------------------
(* Frame of the batch on the engine                                        *)

\* The databases the batch may work on: <base>_temp of each file and the
\* targets named in the request.
BatchWorkspaces == {BaseName(files[k]) \o TempSuffix : k \in 1..Len(files)}
BatchTargets == {restoreConfig.databaseNames[files[k]] : k \in 1..Len(files)} \ {<<>>}
Untouchable == DbNames \ (BatchWorkspaces \cup BatchTargets)

\* C35: during a slim batch no step, the cleanup of the error path included,
\* creates, drops or changes a database other than the workspaces
\* <base>_temp of the items and the restore targets named in the request.
C35_OnlyWorkspacesAndTargets ==
    [][\A d \in Untouchable : engine'[d] = engine[d]]_vars

\* An item failed and its cleanup has dropped the workspace while the server
\* held a database of the user that the batch has no business with.
C35_Witness ==
    /\ pc = "push_fail"
    /\ Last(calls) = Call("drop", tempDbName, NoPath, "catch")
    /\ \E d \in Untouchable : engine[d] = UserDb
    /\ engine[tempDbName] = NoDb

\* C34: once an item has been restored into its target no later item of the
\* batch drops, recreates or imports into that database: from the moment a
\* result reports a restore to the end of the batch the database it names
\* holds exactly the import of that item's slim file, with the default names
\* of the Slim screen as with any other names.
C34_RestoredTargetsStay ==
    \A k \in 1..Len(results) :
        (results[k].success /\ results[k].restored # Null) =>
            engine[results[k].restored] = ImportedDb(SlimPath(files[k]))

-----------------------------------------------------------------------------
(* The byte counter of exportSlimSql                                       *)

\* C31: over one call of exportSlimSql the values passed to the progress
\* callback form one non-decreasing counter: the values of the schema pass
\* are half the bytes written so far, and every value of the data pass is at
\* least the last value of the schema pass.
C31_OneNonDecreasingCounter ==
    \A a, b \in 1..Len(reported) :
        a < b => reported[a].bytes <= reported[b].bytes

-----------------------------------------------------------------------------
(* Temporary files of exportSlimSql                                        *)

UnlinkAttempted(temp) ==
    \E k \in 1..Len(calls) : calls[k] = Call("unlink", <<>>, temp, "exportSlim")

\* C32: on every exit from exportSlimSql (resolved, or rejected by the schema
\* export, the data export or the concatenation) the deletion of both
\* temporary files has been attempted, and a rejection carries the error that
\* made the call fail, never an error of a deletion.
C32_TempFilesUnlinkedErrorKept ==
    /\ [](spc \in {"resolved", "rejected"} =>
            UnlinkAttempted(StructureTemp) /\ UnlinkAttempted(DataTemp))
    /\ [](spc = "rejected" => serr \in {ErrStructure, ErrData, ErrConcat})
    /\ [][spc = "catch" => serr' = serr]_vars

\* The schema export failed, so that the data file never existed and its
\* deletion failed; the call was rejected with the error of the schema export.
C32_Witness ==
    /\ spc = "rejected"
    /\ serr = ErrStructure
    /\ \E k \in 1..Len(thrown) : thrown[k] = Raised(ErrUnlink, "data")

\* C33: for every successful item the reported savings is
\* round((1 - slimBytes / fullBytes) * 100), a finite integer not greater
\* than 100, for every size of the input file, the empty file included.
C33_SavingsFiniteInteger ==
    \A k \in 1..Len(results) :
        results[k].success =>
            /\ results[k].savings.kind = "number"
            /\ results[k].savings.value <= 100
            /\ 2 * results[k].fullBytes * results[k].savings.value
                  <= 200 * (results[k].fullBytes - results[k].slimBytes) + results[k].fullBytes
            /\ 200 * (results[k].fullBytes - results[k].slimBytes) + results[k].fullBytes
                  < 2 * results[k].fullBytes * (results[k].savings.value + 1)

----------------------------------------------------------------------------
(* lib/mysql.js: the shared connection under concurrently invoked           *)
(* mysql:getDatabases and mysql:getDatabaseInfo handlers                    *)

\* Invocations the renderer can have in flight at once.
MaxHandlers == 2
Handlers == 1..MaxHandlers
\* let connection = null
NoConnection == 0
ErrNullQuery == "Cannot read properties of null (reading 'query')"

\* Everything but the connection, the configuration and the fault budget.
connRest == <<files, restoreConfig, pc, i, configContent, configRead, excludeTables, results,
              error, targetDbName, restoreInfo, stream, events, ret, calls, thrown, engine,
              disk, bulkVars, lockVars>>

Invoked == DOMAIN handlers
Handler(op, at, message) == [op |-> op, pc |-> at, error |-> message]
At(h, at) == [handlers EXCEPT ![h].pc = at]
Reject(h, message) == [handlers EXCEPT ![h].pc = "rejected", ![h].error = message]

\* setMySQLConfig: if (connection) { connection.end().catch(() => {}); connection = null; }
EndShared == IF connection = NoConnection THEN conns ELSE [conns EXCEPT ![connection] = "ended"]

\* connection.query(...) evaluated by invocation h: the call is made on
\* whatever the module variable holds at that moment.
Query(h) == [by |-> h, on |-> connection,
             live |-> connection # NoConnection /\ conns[connection] = "open"]

\* A mysql:getDatabases or mysql:getDatabaseInfo message arrives: the handler
\* runs ensureMySQLConfig() and the operation up to the first await, which
\* is  await mysql.createConnection(connOptions)  inside createConnection
\* (the connection was cleared a moment ago, so neither !connection test can
\* skip it).
Invoke ==
    /\ Len(handlers) < MaxHandlers
    /\ \E op \in {"getDatabases", "getDatabaseInfo"}, config \in StoreGet :
         /\ connectionConfig' = SetMySQLConfig(config)
         /\ conns' = EndShared
         /\ connection' = NoConnection
         /\ handlers' = Append(handlers, Handler(op, "connecting", ""))
    /\ UNCHANGED <<queries, faults, connRest, settingsVars, slimVars, progVars>>

\* mysql.createConnection settles.  Resolved: the new connection is assigned
\* to the module variable, over whatever is there, and SELECT 1 is sent on it.
Connected(h) ==
    /\ h \in Invoked
    /\ handlers[h].pc = "connecting"
    /\ \E ok \in BOOLEAN :
         /\ EngineOutcome(ok, TRUE)
         /\ IF ok
            THEN /\ conns' = Append(conns, "open")
                 /\ connection' = Len(conns) + 1
                 /\ handlers' = At(h, "select")
            ELSE /\ handlers' = Reject(h, ErrConnect)
                 /\ UNCHANGED <<conns, connection>>
    /\ UNCHANGED <<queries, connectionConfig, connRest, settingsVars, slimVars, progVars>>

\* The query (or a rejection that blames the null connection) that
\* follows a settled await.
IssueQuery(h, at) ==
    /\ queries' = Append(queries, Query(h))
    /\ handlers' = IF connection = NoConnection THEN Reject(h, ErrNullQuery) ELSE At(h, at)

\* await connection.execute('SELECT 1')  settles; createConnection returns
\* and the operation sends its first query.  A command on a connection that
\* was ended meanwhile may still be answered or may fail.
Selected(h) ==
    /\ h \in Invoked
    /\ handlers[h].pc = "select"
    /\ \E ok \in BOOLEAN :
         /\ Outcome(ok, TRUE)
         /\ IF ok
            THEN IssueQuery(h, "query")
            ELSE handlers' = Reject(h, ErrConnect) /\ UNCHANGED queries
    /\ UNCHANGED <<connection, conns, connectionConfig, connRest, settingsVars, slimVars,
                   progVars>>

\* The first query settles: getDatabases returns its rows, getDatabaseInfo
\* sends its second query.
Answered(h) ==
    /\ h \in Invoked
    /\ handlers[h].pc = "query"
    /\ \E ok \in BOOLEAN :
         /\ Outcome(ok, TRUE)
         /\ IF ~ok
            THEN handlers' = Reject(h, ErrCheck) /\ UNCHANGED queries
            ELSE IF handlers[h].op = "getDatabases"
            THEN handlers' = At(h, "resolved") /\ UNCHANGED queries
            ELSE IssueQuery(h, "query2")
    /\ UNCHANGED <<connection, conns, connectionConfig, connRest, settingsVars, slimVars,
                   progVars>>

\* The second query of getDatabaseInfo settles.
AnsweredAgain(h) ==
    /\ h \in Invoked
    /\ handlers[h].pc = "query2"
    /\ \E ok \in BOOLEAN :
         /\ Outcome(ok, TRUE)
         /\ handlers' = IF ok THEN At(h, "resolved") ELSE Reject(h, ErrCheck)
    /\ UNCHANGED <<queries, connection, conns, connectionConfig, connRest, settingsVars,
                   slimVars, progVars>>

ConnNext ==
    \/ Invoke
    \/ \E h \in Handlers : Connected(h)
    \/ \E h \in Handlers : Selected(h)
    \/ \E h \in Handlers : Answered(h)
    \/ \E h \in Handlers : AnsweredAgain(h)

\* The main process after start-up, before any mysql:* message: nothing is
\* running, the store holds some settings.
ConnInit ==
    /\ files = <<>>
    /\ restoreConfig = NoRestoreConfig
    /\ engine \in InitialEngines
    /\ disk = [f \in SlimPaths |-> NoFile]
    /\ pc = "idle"
    /\ i = 0
    /\ configContent = <<>>
    /\ configRead = "none"
    /\ excludeTables = <<>>
    /\ results = <<>>
    /\ error = ""
    /\ targetDbName = <<>>
    /\ restoreInfo = Null
    /\ stream = "none"
    /\ events = <<>>
    /\ ret = NoReturn
    /\ calls = <<>>
    /\ thrown = <<>>
    /\ faults = 0
    /\ connectionConfig = NotConfigured
    /\ fileSize = 0
    /\ bytesProcessed = 0
    /\ now = Epoch
    /\ lastProgressUpdate = 0
    /\ lastPercentage = 0
    /\ updates = <<>>
    /\ rich = "none"
    /\ reported = <<>>
    /\ store \in StoredSettings
    /\ mysqlConfig = Unread
    /\ screen = "closed"
    /\ tested = NotTested
    /\ snapshotType = "none"
    /\ SideIdle
    /\ SlimIdle

ConnSpec == ConnInit /\ [][ConnNext]_vars

\* C36: getDatabases and getDatabaseInfo never query through a null or an
\* ended connection, whatever the interleaving of the concurrently invoked
\* handlers, and at most one connection is open at a time.
C36_LiveSingleConnection ==
    /\ \A k \in 1..Len(queries) : queries[k].on # NoConnection /\ queries[k].live
    /\ Cardinality({c \in 1..Len(conns) : conns[c] = "open"}) <= 1

----------------------------------------------------------------------------
(* electron/ipc-handlers.js: database:bulkDelete                            *)

\* Names one request can carry.
MaxNames == 2

\* Everything the handler leaves alone.
bulkRest == <<files, restoreConfig, configContent, configRead, excludeTables, results, error,
              targetDbName, restoreInfo, stream, thrown, disk, settingsVars, connVars,
              lockVars, slimVars, progVars>>

\* senderWindow.send(progressChannel, {current, total, currentDb})
BulkProgress(current, currentDb) ==
    [current |-> current, total |-> Len(dbNames), currentDb |-> currentDb]
\* errors.push({database: dbName, error: error.message})
BulkError(database, message) == [database |-> database, error |-> message]
\* return { success: true, deleted, errors }
BulkReturn ==
    [kind |-> "return", success |-> TRUE, results |-> <<>>, error |-> <<>>,
     deleted |-> deleted, errors |-> errors]

\* ensureMySQLConfig(); const deleted = []; const errors = [];
BulkStart ==
    /\ pc = "bulk_start"
    /\ \E config \in StoreGet : connectionConfig' = SetMySQLConfig(config)
    /\ deleted' = <<>>
    /\ errors' = <<>>
    /\ i' = 0
    /\ pc' = "bulk_loop"
    /\ UNCHANGED <<dbNames, events, ret, calls, engine, faults, bulkRest>>

\* One pass of the loop that stops at the first failed drop.
BulkItemStopsAtFailure ==
    /\ pc = "bulk_loop"
    /\ i < Len(dbNames)
    /\ LET toDrop == dbNames[i + 1]
       IN  /\ events' = Append(events, BulkProgress(i + 1, toDrop))
           /\ calls' = Append(calls, Call("drop", toDrop, NoPath, "try"))
           /\ \E ok \in BOOLEAN :
                /\ EngineOutcome(ok, CanDrop(toDrop, engine))
                /\ IF ok
                   THEN /\ engine' = DropDatabase(toDrop, engine)
                        /\ deleted' = Append(deleted, toDrop)
                        /\ i' = i + 1
                        /\ UNCHANGED errors
                   ELSE /\ errors' = Append(errors, BulkError(toDrop, ErrDrop))
                        /\ i' = Len(dbNames)
                        /\ UNCHANGED <<engine, deleted>>
    /\ UNCHANGED <<dbNames, pc, ret, connectionConfig, bulkRest>>

\* One pass of the loop: the progress event, await dropDatabase(dbName), and
\* the push to deleted or, in the catch, to errors.
BulkItem ==
    /\ pc = "bulk_loop"
    /\ i < Len(dbNames)
    /\ LET toDrop == dbNames[i + 1]
       IN  /\ events' = Append(events, BulkProgress(i + 1, toDrop))
           /\ calls' = Append(calls, Call("drop", toDrop, NoPath, "try"))
           /\ \E ok \in BOOLEAN :
                /\ EngineOutcome(ok, CanDrop(toDrop, engine))
                /\ IF ok
                   THEN /\ engine' = DropDatabase(toDrop, engine)
                        /\ deleted' = Append(deleted, toDrop)
                        /\ UNCHANGED errors
                   ELSE /\ errors' = Append(errors, BulkError(toDrop, ErrDrop))
                        /\ UNCHANGED <<engine, deleted>>
    /\ i' = i + 1
    /\ UNCHANGED <<dbNames, pc, ret, connectionConfig, bulkRest>>

\* After the loop: the final progress event and the return.
BulkFinish ==
    /\ pc = "bulk_loop"
    /\ i >= Len(dbNames)
    /\ events' = Append(events, BulkProgress(Len(dbNames), <<>>))
    /\ ret' = BulkReturn
    /\ pc' = "bulk_done"
    /\ UNCHANGED <<dbNames, deleted, errors, i, calls, engine, faults, connectionConfig,
                   bulkRest>>

BulkNext == BulkStart \/ BulkItem \/ BulkFinish

\* The handler invoked with the databases selected on the Delete screen (a
\* selection holds no name twice); some of them may be gone by now.
BulkInit ==
    /\ dbNames \in {ns \in SeqsUpTo(DbNames, MaxNames) : Distinct(ns)}
    /\ deleted = <<>>
    /\ errors = <<>>
    /\ ConnIdle
    /\ LockIdle
    /\ files = <<>>
    /\ restoreConfig = NoRestoreConfig
    /\ engine \in [DbNames -> {NoDb, UserDb}]
    /\ disk = [f \in SlimPaths |-> NoFile]
    /\ pc = "bulk_start"
    /\ i = 0
    /\ configContent = <<>>
    /\ configRead = "none"
    /\ excludeTables = <<>>
    /\ results = <<>>
    /\ error = ""
    /\ targetDbName = <<>>
    /\ restoreInfo = Null
    /\ stream = "none"
    /\ events = <<>>
    /\ ret = NoReturn
    /\ calls = <<>>
    /\ thrown = <<>>
    /\ faults = 0
    /\ connectionConfig = NotConfigured
    /\ fileSize = 0
    /\ bytesProcessed = 0
    /\ now = Epoch
    /\ lastProgressUpdate = 0
    /\ lastPercentage = 0
    /\ updates = <<>>
    /\ rich = "none"
    /\ reported = <<>>
    /\ store \in StoredSettings
    /\ mysqlConfig = Unread
    /\ screen = "closed"
    /\ tested = NotTested
    /\ snapshotType = "none"
    /\ SlimIdle

BulkSpec == BulkInit /\ [][BulkNext]_vars

Attempted == [k \in 1..Len(calls) |-> calls[k].db]
InDeleted(d) == \E k \in 1..Len(deleted) : deleted[k] = d
InErrors(d) == \E k \in 1..Len(errors) : errors[k].database = d

----------------------------------------------------------------------------
(* src/components/Slim.jsx: handleProcess and the operation lock            *)
(* (src/contexts/OperationContext.jsx, preload createSlimDumps)             *)

\* The main process and the rest of the renderer, which the screen's own
\* steps leave alone.
lockRest == <<files, restoreConfig, i, configContent, configRead, excludeTables, results,
              error, targetDbName, restoreInfo, stream, events, ret, calls, thrown, engine,
              faults, disk, connectionConfig, settingsVars, connVars, bulkVars, slimVars,
              progVars>>

\* startOperation(`${operation} (${current}/${total})`)
OperationMessage(operation, current, total) ==
    [operation |-> operation, current |-> current, total |-> total]
\* isOperationActive: !!activeOperation
isOperationActive == activeOperation # NoOperation

\* selectedFiles.filter(f => !databaseNames[f.path] || !databaseNames[f.path].trim())
EmptyNames ==
    {k \in 1..Len(files) : restoreConfig.databaseNames[files[k]] = <<>>}

\* The click on "Create": the two early returns, or setProcessing(true),
\* startOperation and the invocation of slim:start through the preload
\* bridge, which registers the progress listener first.
HandleProcess ==
    /\ slimScreen = "idle"
    /\ IF Len(files) = 0
       THEN /\ slimScreen' = "returned"
            /\ UNCHANGED <<activeOperation, processing, pc>>
       ELSE IF WantsRestore(restoreConfig) /\ EmptyNames # {}
       THEN /\ slimScreen' = "refused"
            /\ UNCHANGED <<activeOperation, processing, pc>>
       ELSE /\ processing' = TRUE
            /\ activeOperation' = OperationMessage("Creating slim dumps", 0, Len(files))
            /\ slimScreen' = "awaiting"
            /\ pc' = "start"
    /\ UNCHANGED <<delivered, lockRest>>

\* ipcRenderer.on(channel, ...): the next progress event of the batch reaches
\* the listener, which is never removed; onProgress calls startOperation.
OnProgress ==
    /\ delivered < Len(events)
    /\ LET progressData == events[delivered + 1]
           operation == IF WantsRestore(restoreConfig) THEN "Creating & restoring"
                        ELSE "Creating slim dumps"
       IN  activeOperation' =
               OperationMessage(operation, progressData.current, progressData.total)
    /\ delivered' = delivered + 1
    /\ UNCHANGED <<processing, slimScreen, pc, lockRest>>

\* A handler whose catch block forgets the lock.
SettledKeepsLockOnReject ==
    /\ slimScreen = "awaiting"
    /\ ret.kind \in {"return", "throw"}
    /\ delivered = Len(events)
    /\ processing' = FALSE
    /\ activeOperation' = IF ret.kind = "throw" THEN activeOperation ELSE NoOperation
    /\ slimScreen' = "settled"
    /\ UNCHANGED <<delivered, pc, lockRest>>

\* The invocation settles: its reply follows the progress events on the
\* channel between the two processes, so the listener has seen them all.
\* Both the end of the try block and the catch block call
\* setProcessing(false) and endOperation().
Settled ==
    /\ slimScreen = "awaiting"
    /\ ret.kind \in {"return", "throw"}
    /\ delivered = Len(events)
    /\ processing' = FALSE
    /\ activeOperation' = NoOperation
    /\ slimScreen' = "settled"
    /\ UNCHANGED <<delivered, pc, lockRest>>

LockNext == HandleProcess \/ OnProgress \/ Settled \/ OrchNext

\* The Slim screen with a selection of none, one or two files, with and
\* without "restore after create", before the click; slim:start has not been
\* invoked.  The server may hold a workspace left over and the database a
\* restore is to replace.
LockInit ==
    /\ files \in {<<>>, <<FileA>>, <<FileA, FileB>>}
    /\ restoreConfig \in RestoreConfigs
    /\ engine \in InitialEngines \cup {LeftoverEngine}
    /\ disk = [f \in SlimPaths |-> NoFile]
    /\ pc = "idle"
    /\ i = 0
    /\ configContent \in ConfigContents
    /\ configRead = "none"
    /\ excludeTables = <<>>
    /\ results = <<>>
    /\ error = ""
    /\ targetDbName = <<>>
    /\ restoreInfo = Null
    /\ stream = "none"
    /\ events = <<>>
    /\ ret = NoReturn
    /\ calls = <<>>
    /\ thrown = <<>>
    /\ faults = 0
    /\ connectionConfig = NotConfigured
    /\ fileSize = 0
    /\ bytesProcessed = 0
    /\ now = Epoch
    /\ lastProgressUpdate = 0
    /\ lastPercentage = 0
    /\ updates = <<>>
    /\ rich = "plain"
    /\ reported = <<>>
    /\ FrontIdle
    /\ SlimIdle

LockSpec == LockInit /\ [][LockNext]_vars

====
